---- MODULE Spec2Model ----
(***************************************************************************)
(* A model of the 3dstools codecs (sarc.py, bffnt.py, bflim.py).           *)
(*                                                                         *)
(* 32-bit quantities that can exceed 2^31-1 (file-name hashes) are kept as *)
(* pairs <<hi, lo>> of 16-bit halves, so that the arithmetic mod 2^32 of   *)
(* the source is computed exactly.  Byte positions are plain naturals.     *)
(*                                                                         *)
(* sarc.py is read with the semantics of the Python 2 it was written for:  *)
(* `/' on integers is floor division (line 116) and iterating a byte       *)
(* string yields one-character strings for ord() (line 479).               *)
(***************************************************************************)
EXTENDS Integers, Sequences, FiniteSets, TLC

VARIABLES
    tool,   \* which program entry point this behaviour runs
    hs,     \* Sarc._calc_filename_hash: the locals of one call
    sv,     \* Sarc create path: the instance's files list and the archive written by save()
    rd,     \* Sarc.read: the instance fields and the locals of one call
    env,    \* Sarc.read: the input file and the inflater feeding the loop
    enc,    \* Bffnt.save / Bflim.save: the file written
    dec,    \* the three header parsers: the instance after read()
    lib,    \* a process using the classes as a library: class attributes and instances
    px,     \* the pixel conversions and the tile walk: the locals of one call
    tx      \* Msbt TXT2: one string list, its bytes, and the string lists parsed from them

vars == <<tool, hs, sv, rd, env, enc, dec, lib, px, tx>>

----------------------------------------------------------------------------
(* Program constants of sarc.py *)

SARC_HEADER_LEN == 20
SFAT_HEADER_LEN == 12
SFNT_HEADER_LEN == 8
SFAT_NODE_LEN == 16
READ_AMOUNT == 1024
DECOMP_AMOUNT == 512
SFAT_HASH_MULTIPLIER == 101
STATE_SARC_HEADER == 0
STATE_SFAT_HEADER == 1
STATE_SFAT_DATA == 2
STATE_SFNT_HEADER == 3
STATE_SFNT_DATA == 4
STATE_FILE_DATA == 5

----------------------------------------------------------------------------
(* Unsigned 32-bit values as <<hi, lo>>, each half in 0..65535 *)

Half == 65536

U32(hi, lo) == <<hi, lo>>

U32Zero == <<0, 0>>

IsU32(v) == /\ v[1] \in 0..(Half - 1)
            /\ v[2] \in 0..(Half - 1)

U32Less(a, b) == \/ a[1] < b[1]
                 \/ (a[1] = b[1] /\ a[2] < b[2])

U32LessEq(a, b) == a = b \/ U32Less(a, b)

\* (c + v * m) & 0xFFFFFFFF for small c and m (m < 2^15, c < 2^15)
MulAdd32(v, m, c) ==
    LET low == v[2] * m + c
        high == v[1] * m + (low \div Half)
    IN  <<high % Half, low % Half>>

\* (a + b) & 0xFFFFFFFF
Add32(a, b) ==
    LET low == a[2] + b[2]
        high == a[1] + b[1] + (low \div Half)
    IN  <<high % Half, low % Half>>

----------------------------------------------------------------------------
(* Sarc._calc_filename_hash (sarc.py 476-481) *)

\* a mutant of the loop body: the mask is 16 bits wide
HashStepNarrow(result, c, mult) == <<0, (result[2] * mult + c) % Half>>

\* one pass of the loop body: result = ord(c) + result * mult; result &= 0xFFFFFFFF
HashStepValue(result, c, mult) == MulAdd32(result, mult, c)

RECURSIVE HashFrom(_, _, _)
\* the loop run to its end from accumulator `result' over the characters of `name'
HashFrom(result, name, mult) ==
    IF name = <<>> THEN result
    ELSE HashFrom(HashStepValue(result, Head(name), mult), Tail(name), mult)

\* _calc_filename_hash(name) with self.file_name_hash_mult = mult
CalcFilenameHash(name, mult) == HashFrom(U32Zero, name, mult)

----------------------------------------------------------------------------
(* The hash routine as a state machine: one step per character *)

\* longest generated name; 101^4 * 116 > 2^32, so names of 5 characters wrap
MaxNameLen == 5

\* the characters names are built from: '.', 'a', 't'
NameChars == {46, 97, 116}

RECURSIVE NamesUpTo(_)
NamesUpTo(n) ==
    IF n = 0 THEN {<<>>}
    ELSE LET shorter == NamesUpTo(n - 1)
         IN  shorter \cup {Append(s, c) : s \in {t \in shorter : Len(t) = n - 1}, c \in NameChars}

\* "example.bffnt"
ExampleName == <<101, 120, 97, 109, 112, 108, 101, 46, 98, 102, 102, 110, 116>>

HashNames == NamesUpTo(MaxNameLen) \cup {ExampleName}

\* a component that takes no part in the behaviour
Idle == [pc |-> "idle"]

\* entry of _calc_filename_hash on the create path: __init__ set the multiplier (line 65)
InitHash ==
    /\ tool = "hash"
    /\ hs \in {[name |-> n, mult |-> SFAT_HASH_MULTIPLIER, i |-> 0,
                result |-> U32Zero, pc |-> "loop"] : n \in HashNames}
    /\ sv = Idle /\ rd = Idle /\ env = Idle /\ enc = Idle /\ dec = Idle /\ lib = Idle /\ px = Idle /\ tx = Idle

\* lines 478-480: the body of `for c in name'
HashLoop ==
    /\ tool = "hash" /\ hs.pc = "loop"
    /\ hs.i < Len(hs.name)
    /\ hs' = [hs EXCEPT !.i = @ + 1,
                        !.result = HashStepValue(@, hs.name[hs.i + 1], hs.mult)]
    /\ UNCHANGED <<tool, sv, rd, env, enc, dec, lib, px, tx>>

\* line 481: return result
HashReturn ==
    /\ tool = "hash" /\ hs.pc = "loop"
    /\ hs.i = Len(hs.name)
    /\ hs' = [hs EXCEPT !.pc = "done"]
    /\ UNCHANGED <<tool, sv, rd, env, enc, dec, lib, px, tx>>

NextHash == HashLoop \/ HashReturn

SpecHash == InitHash /\ [][NextHash]_vars

----------------------------------------------------------------------------
(* struct.pack / struct.unpack of unsigned integers, byte by byte *)

\* struct.pack('<H' or '>H', n)
PackU16(order, n) ==
    IF order = "<" THEN <<n % 256, n \div 256>> ELSE <<n \div 256, n % 256>>

\* struct.unpack('<H' or '>H', b)
UnpackU16(order, b) ==
    IF order = "<" THEN b[2] * 256 + b[1] ELSE b[1] * 256 + b[2]

\* struct.pack('<I' or '>I', n) for n < 2^31
PackU32(order, n) ==
    LET b0 == n % 256
        b1 == (n \div 256) % 256
        b2 == (n \div 65536) % 256
        b3 == n \div 16777216
    IN  IF order = "<" THEN <<b0, b1, b2, b3>> ELSE <<b3, b2, b1, b0>>

\* struct.unpack('<I' or '>I', b), as <<hi, lo>>
UnpackU32(order, b) ==
    IF order = "<" THEN <<b[4] * 256 + b[3], b[2] * 256 + b[1]>>
    ELSE <<b[1] * 256 + b[2], b[3] * 256 + b[4]>>

\* a byte position as an unsigned 32-bit value
ToU32(n) == <<n \div Half, n % Half>>

----------------------------------------------------------------------------
(* The output file of an encoder: the OS file offset and the physical length *)

NewFile == [pos |-> 0, len |-> 0]

\* file.write of n bytes
FileWrite(f, n) ==
    [pos |-> f.pos + n,
     len |-> IF n > 0 /\ f.pos + n > f.len THEN f.pos + n ELSE f.len]

\* file.seek(p)
FileSeek(f, p) == [pos |-> p, len |-> f.len]

----------------------------------------------------------------------------
(* Sarc create path: add (73-80), _file_sort (82-87), save (98-175) *)

\* number of add() calls in one run
MaxAdds == 3

\* the symbol 'x' among the hex digits 0..15 of a '0x%08x' stem
HexX == 16

\* the source paths of the model.  A `.noname.bin' source carries the text before the
\* first '.', as digit symbols; any other source carries its name as character codes.
NonamePaths ==
    { [noname |-> TRUE, text |-> <<0, HexX, 0, 0, 0, 0, 0, 0, 0, 0>>],    \* 0x00000000
      [noname |-> TRUE, text |-> <<0, HexX, 0, 0, 0, 0, 0, 0, 6, 1>>],    \* 0x00000061 = hash("a")
      [noname |-> TRUE, text |-> <<0, HexX, 15, 15, 0, 0, 0, 0, 0, 2>>] } \* 0xff000002

NamedPaths ==
    { [noname |-> FALSE, text |-> <<97>>],          \* "a"
      [noname |-> FALSE, text |-> <<97, 116>>],     \* "at"
      [noname |-> FALSE, text |-> <<46, 97, 46, 116, 97>>] }  \* ".a.ta"

Paths == NonamePaths \cup NamedPaths

\* os.stat(path).st_size of the sources
FileSizes == {0, 1, 128}

\* the file systems of the model: a size for each source path
SizeMaps ==
    { [p \in Paths |-> IF Len(p.text) % 2 = 1 THEN odd ELSE even] :
          odd \in FileSizes, even \in FileSizes }

RECURSIVE LStrip0x(_)
\* str.lstrip('0x'): drop every leading '0' and 'x'
LStrip0x(text) ==
    IF text # <<>> /\ Head(text) \in {0, HexX} THEN LStrip0x(Tail(text)) ELSE text

\* int(digits, 16) raises ValueError
HexInvalid(digits) == digits = <<>> \/ \E i \in 1..Len(digits) : digits[i] = HexX

RECURSIVE HexFrom(_, _)
HexFrom(value, digits) ==
    IF digits = <<>> THEN value
    ELSE HexFrom(MulAdd32(value, 16, Head(digits)), Tail(digits))

\* int(digits, 16) for at most 8 digits
HexValue(digits) == HexFrom(U32Zero, digits)

\* the hash read back from a `.noname.bin' name (lines 84 and 111)
NonameHash(path) == HexValue(LStrip0x(path.text))

\* _file_sort raises for this path
FileSortFails(path) == path.noname /\ HexInvalid(LStrip0x(path.text))

\* _file_sort(name) (lines 82-87)
FileSort(path, mult) ==
    IF path.noname THEN NonameHash(path) ELSE CalcFilenameHash(path.text, mult)

RECURSIVE InsertByKey(_, _, _)
\* x placed behind every element whose key is not greater: one step of a stable sort
InsertByKey(sorted, x, mult) ==
    IF sorted = <<>> THEN <<x>>
    ELSE IF U32LessEq(FileSort(Head(sorted), mult), FileSort(x, mult))
         THEN <<Head(sorted)>> \o InsertByKey(Tail(sorted), x, mult)
         ELSE <<x>> \o sorted

RECURSIVE SortFiles(_, _)
\* list.sort(key=self._file_sort): stable, ascending by key (line 80)
SortFiles(files, mult) ==
    IF files = <<>> THEN <<>>
    ELSE InsertByKey(SortFiles(SubSeq(files, 1, Len(files) - 1), mult),
                     files[Len(files)], mult)

\* the padding computed at lines 121, 137 and 150: align - (n % align), dropped when it
\* is a whole unit
Padding(n, align) ==
    LET padding == align - (n % align)
    IN  IF padding < align THEN padding ELSE 0

\* bytes one file appends to fnt_bytes: the name (16 NULs for a noname source) and a
\* terminator, padded to 4 (lines 113, 119-123)
FntEntryLen(path, before) ==
    LET raw == before + (IF path.noname THEN 16 ELSE Len(path.text)) + 1
    IN  raw + Padding(raw, 4) - before

RECURSIVE FntLen(_, _)
\* len(fnt_bytes) after the first k files
FntLen(files, k) ==
    IF k = 0 THEN 0
    ELSE FntLen(files, k - 1) + FntEntryLen(files[k], FntLen(files, k - 1))

\* the node written at line 118 for file k, before its range is patched in
FatNode(files, k, mult) ==
    [hash |-> FileSort(files[k], mult),
     has_name |-> IF files[k].noname THEN 0 ELSE 1,
     name_offset |-> IF files[k].noname THEN 0 ELSE FntLen(files, k - 1) \div 4,
     start |-> 0,
     end |-> 0]

\* a mutant of line 159: the start is taken before the alignment padding
FileStartUnpadded(position, padding, data_start) == position - data_start

\* line 159 (position here is the value read at line 149)
FileStart(position, padding, data_start) == position + padding - data_start

\* a mutant of line 150: files are packed back to back
DataPaddingNone(position) == 0

\* lines 150-153
DataPadding(position) == Padding(position, 128)

RECURSIVE SaveData(_, _, _, _)
\* the loop of lines 146-169 from file i on.  st: file_position, the output file f, the
\* patched nodes and, per file, the OS offset at which its data was written
SaveData(files, sizes, i, st) ==
    IF i > Len(files) THEN st
    ELSE
        LET position == st.file_position
            padding == DataPadding(position)
            f1 == FileWrite(st.f, padding)
            file_start == FileStart(position, padding, st.data_start)
            file_end == file_start + sizes[files[i]]
            \* seek to the node, write 8 bytes uncounted, seek back (161-163)
            f2 == FileSeek(FileWrite(FileSeek(f1, st.fat_header_start + SFAT_NODE_LEN * (i - 1) + 8), 8),
                           position + padding)
            f3 == FileWrite(f2, sizes[files[i]])
        IN  SaveData(files, sizes, i + 1,
                [st EXCEPT !.file_position = position + padding + sizes[files[i]],
                           !.f = f3,
                           !.nodes[i].start = file_start,
                           !.nodes[i].end = file_end,
                           !.written_at = Append(@, f2.pos)])

\* line 171
ArchiveSize(st_end, data_start) == st_end.file_position

\* save() (lines 98-175) for an uncompressed archive: what the file holds afterwards
SaveArchive(files, sizes, order, mult) ==
    LET n == Len(files)
        nodes0 == [k \in 1..n |-> FatNode(files, k, mult)]
        \* header, SFAT header, nodes, SFNT header, names (104, 129-134)
        fat_header_start == SARC_HEADER_LEN + SFAT_HEADER_LEN
        unpadded == fat_header_start + SFAT_NODE_LEN * n + SFNT_HEADER_LEN + FntLen(files, n)
        padding == Padding(unpadded, 256)
        data_start == unpadded + padding
        f0 == FileWrite(NewFile, unpadded + padding)
        \* seek(0x0c), write the data offset uncounted, seek(data_start) (142-144)
        f1 == FileSeek(FileWrite(FileSeek(f0, 12), 4), data_start)
        st0 == [file_position |-> unpadded + padding, f |-> f1, nodes |-> nodes0,
                written_at |-> <<>>, data_start |-> data_start,
                fat_header_start |-> fat_header_start]
        st1 == SaveData(files, sizes, 1, st0)
        size == ArchiveSize(st1, data_start)
        f2 == FileWrite(FileSeek(st1.f, 8), 4)
    IN  [order |-> order,
         bom |-> PackU16(order, 65279),
         file_len |-> PackU32(order, size),
         data_offset |-> PackU32(order, data_start),
         data_region_at |-> f1.pos,
         node_count |-> n,
         nodes |-> st1.nodes,
         written_at |-> st1.written_at,
         length |-> f2.len]

\* the files a directory walk hands to _add_path (75-76, 89-91): none, one or two
WalkResults == {<<>>} \cup {<<p>> : p \in NamedPaths} \cup {w \in NamedPaths \X NamedPaths : w[1] # w[2]}

InitSave ==
    /\ tool = "sarc_create"
    /\ sv \in {[pc |-> "adding", files |-> <<>>, adds |-> 0, order |-> o, sizes |-> sz,
                mult |-> SFAT_HASH_MULTIPLIER, out |-> <<>>] :
                    o \in {"<", ">"}, sz \in SizeMaps}
    /\ hs = Idle /\ rd = Idle /\ env = Idle /\ enc = Idle /\ dec = Idle /\ lib = Idle /\ px = Idle /\ tx = Idle

\* add(path), appending `found' (the path itself, or the files under a directory), then
\* the sort of line 80; a key that cannot be computed ends the program with ValueError
AddFound(found) ==
    LET appended == sv.files \o found
    IN  IF \E i \in 1..Len(appended) : FileSortFails(appended[i])
        THEN sv' = [sv EXCEPT !.files = appended, !.pc = "crashed"]
        ELSE sv' = [sv EXCEPT !.files = SortFiles(appended, sv.mult), !.adds = @ + 1]

\* add(path) for a plain file (lines 77-80)
SarcAddFile ==
    /\ tool = "sarc_create" /\ sv.pc = "adding" /\ sv.adds < MaxAdds
    /\ \E p \in Paths : AddFound(<<p>>)
    /\ UNCHANGED <<tool, hs, rd, env, enc, dec, lib, px, tx>>

\* add(path) for a directory (lines 74-76, 80)
SarcAddDir ==
    /\ tool = "sarc_create" /\ sv.pc = "adding" /\ sv.adds < MaxAdds
    /\ \E found \in WalkResults : AddFound(found)
    /\ UNCHANGED <<tool, hs, rd, env, enc, dec, lib, px, tx>>

\* save() (lines 98-175), compressed = False
SarcSave ==
    /\ tool = "sarc_create" /\ sv.pc = "adding"
    /\ sv' = [sv EXCEPT !.pc = "saved",
                        !.out = SaveArchive(sv.files, sv.sizes, sv.order, sv.mult)]
    /\ UNCHANGED <<tool, hs, rd, env, enc, dec, lib, px, tx>>

NextSave == SarcAddFile \/ SarcAddDir \/ SarcSave

SpecSave == InitSave /\ [][NextSave]_vars

\* the byte order _parse_header takes from the BOM bytes (lines 341-352)
SarcOrderOfBom(bom) ==
    IF bom = <<255, 254>> THEN "<"
    ELSE IF bom = <<254, 255>> THEN ">"
    ELSE "none"

----------------------------------------------------------------------------
(* Sarc.read: the archives read *)

\* An archive is described by its header fields (as the values read in the order the
\* fields were written in), its SFAT nodes, the bytes of its name table `fnt' (every
\* byte behind them, up to the data region, is a padding zero) and `stream_len', the
\* number of archive bytes the file, or the inflater, hands over.  `prefix' is the
\* 32-bit length in front of a zlib-wrapped archive.

BomLittle == <<255, 254>>

BomBig == <<254, 255>>

HashA == U32(0, 97)        \* hash("a"), multiplier 0x65

HashAt == U32(0, 9913)     \* hash("at"), multiplier 0x65

HashAt31 == U32(0, 3123)   \* hash("at"), multiplier 0x1f

\* "a\0\0\0at\0\0": the names "a" at word 0 and "at" at word 1
FntAAt == <<97, 0, 0, 0, 97, 116, 0, 0>>

Node(hash, has_name, name_offset, start, end) ==
    [hash |-> hash, has_name |-> has_name, name_offset |-> name_offset,
     start |-> start, end |-> end]

NodeA(start, end) == Node(HashA, 1, 0, start, end)

NodeAt(start, end) == Node(HashAt, 1, 1, start, end)

NodeNoname(start, end) == Node(U32(65280, 2), 0, 0, start, end)

\* a little-endian archive whose headers pass every check
Archive(nodes, fnt, data_offset, stream_len) ==
    [bom |-> BomLittle, magic |-> "SARC", header_len |-> PackU16("<", SARC_HEADER_LEN),
     file_len |-> stream_len, data_offset |-> data_offset,
     fat_magic |-> "SFAT", fat_header_len |-> SFAT_HEADER_LEN,
     node_count |-> Len(nodes), hash_mult |-> SFAT_HASH_MULTIPLIER, nodes |-> nodes,
     fnt_magic |-> "SFNT", fnt_header_len |-> SFNT_HEADER_LEN, fnt |-> fnt,
     stream_len |-> stream_len, prefix |-> stream_len]

\* archives as save() lays them out
WellFormedArchives ==
    { Archive(<<>>, <<>>, 256, 256),
      Archive(<<NodeA(0, 1)>>, FntAAt, 256, 257),
      Archive(<<NodeA(0, 1), NodeAt(128, 256)>>, FntAAt, 256, 512),
      Archive(<<NodeA(0, 130), NodeAt(256, 256)>>, FntAAt, 256, 512),
      Archive(<<NodeA(0, 0), NodeAt(0, 3)>>, FntAAt, 256, 259),
      Archive(<<NodeA(0, 1), NodeNoname(128, 131)>>, FntAAt, 256, 387),
      Archive(<<NodeA(0, 700)>>, FntAAt, 512, 1212),
      Archive(<<NodeA(0, 5), NodeAt(128, 1300)>>, FntAAt, 768, 2068),
      Archive(<<NodeA(0, 5), NodeAt(128, 133)>>, FntAAt, 1024, 1157),
      [Archive(<<NodeA(0, 1), NodeAt(128, 256)>>, FntAAt, 256, 512) EXCEPT
           !.bom = BomBig, !.header_len = PackU16(">", SARC_HEADER_LEN)],
      [Archive(<<NodeA(0, 1), Node(HashAt31, 1, 1, 128, 130)>>, FntAAt, 256, 386) EXCEPT
           !.hash_mult = 31] }

\* archives with one thing wrong
DefectiveArchives ==
    LET two == Archive(<<NodeA(0, 1), NodeAt(128, 256)>>, FntAAt, 256, 512)
    IN  { [two EXCEPT !.bom = <<0, 0>>],
          [two EXCEPT !.bom = BomBig],
          [two EXCEPT !.magic = "CRAS"],
          [two EXCEPT !.header_len = PackU16("<", 24)],
          [two EXCEPT !.file_len = 513],
          [two EXCEPT !.file_len = 513, !.prefix = 513],
          [two EXCEPT !.prefix = 500],
          [two EXCEPT !.data_offset = 600],
          [two EXCEPT !.data_offset = 36],
          [two EXCEPT !.data_offset = 60],
          [two EXCEPT !.fat_magic = "TAFS"],
          [two EXCEPT !.fat_header_len = 16],
          [two EXCEPT !.fnt_magic = "TNFS"],
          [two EXCEPT !.fnt_header_len = 12],
          [two EXCEPT !.nodes[2].hash = U32(0, 9914)],
          [two EXCEPT !.nodes[1].hash = U32(1, 97)],
          [two EXCEPT !.hash_mult = 31],
          \* the data of the second node lies in front of the data of the first
          Archive(<<NodeA(128, 129), NodeAt(0, 1)>>, FntAAt, 256, 385),
          \* overlapping ranges
          Archive(<<NodeA(0, 10), NodeAt(5, 12)>>, FntAAt, 256, 268),
          \* a range running past the end of the archive, one starting behind it
          Archive(<<NodeA(0, 300)>>, FntAAt, 256, 356),
          Archive(<<NodeA(200, 201)>>, FntAAt, 256, 356),
          \* dataEnd in front of dataStart
          Archive(<<NodeA(8, 4), NodeAt(128, 129)>>, FntAAt, 256, 385),
          \* a name table that ends with its last name, without a terminator
          Archive(<<NodeA(0, 1), NodeAt(1, 2)>>, <<97, 0, 0, 0, 97, 116>>, 78, 80),
          \* archives cut short: in the SARC header, behind the nodes, in the name table
          [Archive(<<NodeA(0, 1)>>, FntAAt, 256, 257) EXCEPT !.stream_len = 10, !.prefix = 10],
          [Archive(<<NodeA(0, 1)>>, FntAAt, 48, 48) EXCEPT !.file_len = 48],
          [Archive(<<NodeA(0, 1)>>, FntAAt, 256, 60) EXCEPT !.file_len = 257, !.prefix = 257],
          \* a complete archive of 62 nodes, whose node table ends at byte 1024; the name
          \* stored for the first node does not hash to the node's hash
          Archive([i \in 1..62 |-> IF i = 1 THEN Node(U32(0, 98), 1, 0, 0, 1)
                                   ELSE Node(U32(1, i), 0, 0, 1, 1)],
                  FntAAt, 1280, 1281) }

Archives == WellFormedArchives \cup DefectiveArchives

----------------------------------------------------------------------------
(* Sarc.read: the parsers (340-474) *)

Min(a, b) == IF a < b THEN a ELSE b

Max(a, b) == IF a > b THEN a ELSE b

\* data[:k] of the bytes lo..hi-1: the position behind the last byte kept
SliceTo(lo, hi, k) == IF k >= 0 THEN Min(lo + k, hi) ELSE Max(lo, hi + k)

\* data[k:] of the bytes lo..hi-1: the position of the first byte kept
SliceFrom(lo, hi, k) == IF k >= 0 THEN Min(lo + k, hi) ELSE Max(lo, hi + k)

\* a mutant of line 370: the length check is left out
SizeCheckSkipped(file_len, file_size) == FALSE

\* line 370
SizeMismatch(file_len, file_size) == file_len # file_size

\* _parse_header (340-380): the checks in their order
ParseHeader(arc, file_size) ==
    LET order == SarcOrderOfBom(arc.bom)
    IN  IF order = "none" THEN [invalid |-> TRUE, order |-> "none", why |-> "bom"]
        ELSE IF arc.magic # "SARC" THEN [invalid |-> TRUE, order |-> order, why |-> "magic"]
        ELSE IF UnpackU16(order, arc.header_len) # SARC_HEADER_LEN
             THEN [invalid |-> TRUE, order |-> order, why |-> "header_len"]
        ELSE IF SizeMismatch(arc.file_len, file_size)
             THEN [invalid |-> TRUE, order |-> order, why |-> "file_size"]
        ELSE IF \/ arc.data_offset > arc.file_len
                \/ arc.data_offset < SARC_HEADER_LEN + SFAT_HEADER_LEN + SFNT_HEADER_LEN
             THEN [invalid |-> TRUE, order |-> order, why |-> "data_offset"]
        ELSE [invalid |-> FALSE, order |-> order, why |-> "ok"]

\* _parse_fat_header (391-405) reports the archive invalid
FatHeaderInvalid(arc) == arc.fat_magic # "SFAT" \/ arc.fat_header_len # SFAT_HEADER_LEN

\* _parse_fnt_header (435-446) reports the archive invalid
FntHeaderInvalid(arc) == arc.fnt_magic # "SFNT" \/ arc.fnt_header_len # SFNT_HEADER_LEN

\* node['filename'] before _parse_fnt_data has set it
Unset == [noname |-> FALSE, text |-> <<-1>>]

\* _parse_fat_nodes (413-433): the dictionaries appended to file_nodes
ParsedNodes(arc) ==
    [i \in 1..arc.node_count |->
        [hash |-> arc.nodes[i].hash,
         has_name |-> arc.nodes[i].has_name,
         name_offset |-> arc.nodes[i].name_offset * 4,
         start |-> arc.nodes[i].start,
         end |-> arc.nodes[i].end,
         length |-> arc.nodes[i].end - arc.nodes[i].start,
         filename |-> Unset]]

\* byte i of the stream behind the SFNT header
FntByte(arc, i) == IF i < Len(arc.fnt) THEN arc.fnt[i + 1] ELSE 0

\* data.find(b'\0', start) in the first dlen bytes behind the SFNT header
FindNul(arc, dlen, start) ==
    LET zeros == {i \in start..(Min(dlen, Len(arc.fnt)) - 1) : arc.fnt[i + 1] = 0}
    IN  IF start >= dlen THEN -1
        ELSE IF zeros # {} THEN CHOOSE i \in zeros : \A j \in zeros : i <= j
        ELSE IF Len(arc.fnt) < dlen THEN Max(start, Len(arc.fnt))
        ELSE -1

\* data[start:end] as a sequence of bytes (lines 457-459)
StoredName(arc, dlen, start) ==
    LET end == FindNul(arc, dlen, start)
        stop == IF end >= 0 THEN Min(end, dlen) ELSE Max(0, dlen + end)
    IN  [i \in 1..Max(0, stop - start) |-> FntByte(arc, start + i - 1)]

\* hex digit k (1 = most significant) of a 16-bit half
HexDigit(half, k) ==
    IF k = 1 THEN half \div 4096
    ELSE IF k = 2 THEN (half \div 256) % 16
    ELSE IF k = 3 THEN (half \div 16) % 16
    ELSE half % 16

\* '0x%08x.noname.bin' % hash (line 474)
NonameFilename(hash) ==
    [noname |-> TRUE,
     text |-> <<0, HexX>> \o [k \in 1..4 |-> HexDigit(hash[1], k)]
                            \o [k \in 1..4 |-> HexDigit(hash[2], k)]]

\* line 467-468: the stored name does not hash to the node's hash
HashMismatch(node_hash, name, mult) == node_hash # CalcFilenameHash(name, mult)

RECURSIVE ParseFntData(_, _, _, _, _)
\* _parse_fnt_data (454-474) from node i on, over the first dlen bytes behind the SFNT
\* header: the nodes with their file names, and whether a name failed the hash check
ParseFntData(arc, nodes, i, dlen, mult) ==
    IF i > Len(nodes) THEN [nodes |-> nodes, invalid |-> FALSE]
    ELSE IF nodes[i].has_name # 0
         THEN LET name == StoredName(arc, dlen, nodes[i].name_offset)
                  named == [nodes EXCEPT ![i].filename = [noname |-> FALSE, text |-> name]]
              IN  IF HashMismatch(nodes[i].hash, name, mult)
                  THEN [nodes |-> named, invalid |-> TRUE]
                  ELSE ParseFntData(arc, named, i + 1, dlen, mult)
         ELSE ParseFntData(arc,
                  [nodes EXCEPT ![i].filename = NonameFilename(nodes[i].hash)],
                  i + 1, dlen, mult)

----------------------------------------------------------------------------
(* Sarc.read: the loop (201-338) *)

\* non-empty reads the compressed file gives before it is exhausted
MaxReads == 3

\* deliveries of one run in which the inflater hands over less than it is asked for
MaxShort == 2

\* the size of such a short delivery
ShortChunk == 17

\* the ways one run is fed: a plain file, or a zlib stream of `reads' file reads
Feeds ==
    {[compressed |-> FALSE, reads_left |-> 0, shorts_left |-> 0]}
    \cup {[compressed |-> TRUE, reads_left |-> r, shorts_left |-> k] :
              r \in 1..MaxReads, k \in 0..MaxShort}

\* the locals of read() at line 204-214 and the instance attributes of a new Sarc
ReadStart ==
    [pc |-> "loop", at |-> "top", how |-> "running",
     state |-> STATE_SARC_HEADER, eof |-> FALSE, get_more |-> TRUE,
     node_section_length |-> 0, position |-> 0, partial_start |-> 0, buf_lo |-> 0,
     file_idx |-> 0, remaining |-> 0,
     invalid |-> FALSE, extracting |-> FALSE, order |-> "none",
     file_data_offset |-> 0, file_count |-> 0, file_name_hash_mult |-> 0,
     fnt_data_length |-> 0, file_nodes |-> <<>>,
     emitted |-> <<>>, listed |-> <<>>]

\* self.file_size (lines 67-71): the prefix of a zlib-wrapped file, else the size on disk
FileSizeOf(arc, feed) == IF feed.compressed THEN arc.prefix ELSE arc.stream_len

InitRead ==
    /\ tool = "sarc_read"
    /\ env \in {[arc |-> a, extract |-> x, feed |-> f, file_size |-> FileSizeOf(a, f),
                 run |-> 1, prev |-> <<>>] :
                    a \in Archives, x \in BOOLEAN, f \in Feeds}
    /\ rd = ReadStart
    /\ hs = Idle /\ sv = Idle /\ enc = Idle /\ dec = Idle /\ lib = Idle /\ px = Idle /\ tx = Idle

\* len(partial_data): partial_data holds the stream bytes buf_lo .. position-1
PartialLen == rd.position - rd.buf_lo

\* the condition of the while at line 220
LoopCondition == ~rd.eof \/ PartialLen > 0 \/ rd.extracting

\* the loop body runs: the condition held, or the read of this pass is already done
InBody == rd.pc = "loop" /\ ~rd.get_more /\ (rd.at = "body" \/ LoopCondition)

\* return with self.invalid set
ReturnInvalid(r) == [r EXCEPT !.invalid = TRUE, !.pc = "done", !.how = "invalid"]

\* lines 337-338 behind the loop: _list_files prints node['filename'] of every node and
\* raises KeyError on a node that has none
AfterLoop(r) ==
    IF env.extract THEN [r EXCEPT !.pc = "done", !.how = "returned"]
    ELSE IF \E i \in 1..Len(r.file_nodes) : r.file_nodes[i].filename = Unset
         THEN [r EXCEPT !.pc = "raised", !.how = "KeyError"]
         ELSE [r EXCEPT !.pc = "done", !.how = "listed",
                        !.listed = [i \in 1..Len(r.file_nodes) |-> r.file_nodes[i].filename]]

\* the sizes one delivery can have, given what the stream still holds
DeliverySizes ==
    LET left == env.arc.stream_len - rd.position
        full == Min(DECOMP_AMOUNT, left)
    IN  IF ~env.feed.compressed THEN {Min(READ_AMOUNT, left)}
        ELSE IF env.feed.reads_left <= 1 THEN {full}
        ELSE {full} \cup {n \in {ShortChunk} : env.feed.shorts_left > 0 /\ n < full}

\* lines 220-230: the loop condition holds and get_more is set: read, inflate, append
ReadMore ==
    /\ tool = "sarc_read" /\ rd.pc = "loop" /\ rd.at = "top"
    /\ rd.get_more /\ LoopCondition
    /\ \E n \in DeliverySizes :
          /\ rd' = [rd EXCEPT !.at = "body", !.get_more = FALSE,
                              !.position = @ + n,
                              !.eof = IF env.feed.compressed THEN env.feed.reads_left = 0
                                      ELSE n = 0]
          /\ env' = [env EXCEPT !.feed.reads_left = IF @ > 0 THEN @ - 1 ELSE 0,
                                !.feed.shorts_left =
                                    IF n < Min(DECOMP_AMOUNT, env.arc.stream_len - rd.position)
                                    THEN @ - 1 ELSE @]
    /\ UNCHANGED <<tool, hs, sv, enc, dec, lib, px, tx>>

\* line 220: the loop condition fails; lines 337-338 follow
LoopExit ==
    /\ tool = "sarc_read" /\ rd.pc = "loop" /\ rd.at = "top"
    /\ ~LoopCondition
    /\ rd' = AfterLoop(rd)
    /\ UNCHANGED <<tool, hs, sv, env, enc, dec, lib, px, tx>>

\* consume k >= 0 bytes from the front of partial_data
Consume(r, k) == [r EXCEPT !.buf_lo = SliceFrom(@, r.position, k), !.partial_start = @ + k]

\* lines 232-241
StateSarcHeader ==
    /\ tool = "sarc_read" /\ InBody /\ rd.state = STATE_SARC_HEADER
    /\ IF PartialLen >= SARC_HEADER_LEN
       THEN LET h == ParseHeader(env.arc, env.file_size)
            IN  rd' = IF h.invalid THEN [ReturnInvalid(rd) EXCEPT !.order = h.order]
                      ELSE [Consume(rd, SARC_HEADER_LEN) EXCEPT
                                !.at = "top", !.state = STATE_SFAT_HEADER,
                                !.order = h.order,
                                !.file_data_offset = env.arc.data_offset]
       ELSE rd' = [rd EXCEPT !.at = "top", !.get_more = TRUE]
    /\ UNCHANGED <<tool, hs, sv, env, enc, dec, lib, px, tx>>

\* lines 242-253
StateSfatHeader ==
    /\ tool = "sarc_read" /\ InBody /\ rd.state = STATE_SFAT_HEADER
    /\ IF PartialLen >= SFAT_HEADER_LEN
       THEN rd' = IF FatHeaderInvalid(env.arc) THEN ReturnInvalid(rd)
                  ELSE [Consume(rd, SFAT_HEADER_LEN) EXCEPT
                            !.at = "top", !.state = STATE_SFAT_DATA,
                            !.file_count = env.arc.node_count,
                            !.file_name_hash_mult = env.arc.hash_mult,
                            !.node_section_length = SFAT_NODE_LEN * env.arc.node_count,
                            !.fnt_data_length =
                                rd.file_data_offset - SARC_HEADER_LEN - SFAT_HEADER_LEN
                                - SFNT_HEADER_LEN - SFAT_NODE_LEN * env.arc.node_count]
       ELSE rd' = [rd EXCEPT !.at = "top", !.get_more = TRUE]
    /\ UNCHANGED <<tool, hs, sv, env, enc, dec, lib, px, tx>>

\* lines 254-263
StateSfatData ==
    /\ tool = "sarc_read" /\ InBody /\ rd.state = STATE_SFAT_DATA
    /\ IF PartialLen >= rd.node_section_length
       THEN rd' = [Consume(rd, rd.node_section_length) EXCEPT
                       !.at = "top", !.state = STATE_SFNT_HEADER,
                       !.file_nodes = @ \o ParsedNodes(env.arc)]
       ELSE rd' = [rd EXCEPT !.at = "top", !.get_more = TRUE]
    /\ UNCHANGED <<tool, hs, sv, env, enc, dec, lib, px, tx>>

\* lines 264-273
StateSfntHeader ==
    /\ tool = "sarc_read" /\ InBody /\ rd.state = STATE_SFNT_HEADER
    /\ IF PartialLen >= SFNT_HEADER_LEN
       THEN rd' = IF FntHeaderInvalid(env.arc) THEN ReturnInvalid(rd)
                  ELSE [Consume(rd, SFNT_HEADER_LEN) EXCEPT
                            !.at = "top", !.state = STATE_SFNT_DATA]
       ELSE rd' = [rd EXCEPT !.at = "top", !.get_more = TRUE]
    /\ UNCHANGED <<tool, hs, sv, env, enc, dec, lib, px, tx>>

\* lines 274-283; fnt_data_length is negative when dataOffset lies inside the headers
StateSfntData ==
    /\ tool = "sarc_read" /\ InBody /\ rd.state = STATE_SFNT_DATA
    /\ IF PartialLen >= rd.fnt_data_length
       THEN LET dlen == SliceTo(rd.buf_lo, rd.position, rd.fnt_data_length) - rd.buf_lo
                parsed == ParseFntData(env.arc, rd.file_nodes, 1, dlen, rd.file_name_hash_mult)
            IN  rd' = IF parsed.invalid
                      THEN [ReturnInvalid(rd) EXCEPT !.file_nodes = parsed.nodes]
                      ELSE [Consume(rd, rd.fnt_data_length) EXCEPT
                                !.at = "top", !.state = STATE_FILE_DATA,
                                !.file_nodes = parsed.nodes]
       ELSE rd' = [rd EXCEPT !.at = "top", !.get_more = TRUE]
    /\ UNCHANGED <<tool, hs, sv, env, enc, dec, lib, px, tx>>

\* open(filename, 'wb') at line 305: a new output file; opening the file that is still
\* open for this node truncates it
Opened(emitted, idx, filename) ==
    LET fresh == [idx |-> idx, filename |-> filename, lo |-> 0, hi |-> 0,
                  written |-> FALSE, closed |-> FALSE]
        n == Len(emitted)
    IN  IF n > 0 /\ emitted[n].idx = idx /\ ~emitted[n].closed
        THEN [emitted EXCEPT ![n] = fresh]
        ELSE Append(emitted, fresh)

\* output.write of the stream bytes lo..hi-1 (lines 322, 328); successive writes to one
\* file are adjacent in the stream
Written(emitted, lo, hi, close) ==
    LET n == Len(emitted)
        file == emitted[n]
    IN  [emitted EXCEPT ![n] = [file EXCEPT !.lo = IF file.written THEN file.lo ELSE lo,
                                            !.hi = hi,
                                            !.written = TRUE,
                                            !.closed = close]]

\* lines 320-335, with `r' the locals behind line 318
WriteData(r) ==
    IF r.position - r.buf_lo < r.remaining
    THEN [r EXCEPT !.emitted = Written(@, r.buf_lo, r.position, FALSE),
                   !.remaining = @ - (r.position - r.buf_lo),
                   !.buf_lo = r.position,
                   !.partial_start = r.position,
                   !.get_more = TRUE,
                   !.at = "top"]
    ELSE LET cut == SliceTo(r.buf_lo, r.position, r.remaining)
             done == [r EXCEPT !.emitted = Written(@, r.buf_lo, cut, TRUE),
                               !.buf_lo = SliceFrom(r.buf_lo, r.position, r.remaining),
                               !.partial_start = @ + r.remaining,
                               !.remaining = 0,
                               !.file_idx = @ + 1,
                               !.at = "top"]
         IN  IF done.file_idx >= r.file_count THEN AfterLoop(done) ELSE done

\* lines 307-318, with `r' the locals behind line 305
SeekData(r) ==
    LET node == r.file_nodes[r.file_idx + 1]
        start == node.start + r.file_data_offset
    IN  IF r.remaining = node.length
        THEN IF r.position > start /\ r.partial_start <= start
             THEN WriteData([r EXCEPT
                      !.buf_lo = SliceFrom(@, r.position, start - r.partial_start),
                      !.partial_start = start])
             ELSE IF r.partial_start > start
                  THEN [r EXCEPT !.pc = "done", !.how = "cannot extract"]
                  ELSE [r EXCEPT !.get_more = TRUE, !.at = "top"]
        ELSE WriteData(r)

\* lines 284-335
StateFileData ==
    /\ tool = "sarc_read" /\ InBody /\ rd.state = STATE_FILE_DATA
    /\ rd' = IF ~env.extract THEN AfterLoop(rd)
             ELSE IF rd.file_idx >= Len(rd.file_nodes)
                  THEN [rd EXCEPT !.extracting = TRUE, !.pc = "raised", !.how = "IndexError"]
                  ELSE LET node == rd.file_nodes[rd.file_idx + 1]
                           r0 == [rd EXCEPT !.extracting = TRUE]
                       IN  IF rd.remaining = 0
                           THEN SeekData([r0 EXCEPT
                                    !.remaining = node.length,
                                    !.emitted = Opened(@, rd.file_idx, node.filename)])
                           ELSE SeekData(r0)
    /\ UNCHANGED <<tool, hs, sv, env, enc, dec, lib, px, tx>>

\* what a finished read() leaves behind: how it ended, the nodes, the files written
Outcome(r) ==
    [how |-> r.how, invalid |-> r.invalid, file_nodes |-> r.file_nodes,
     emitted |-> r.emitted, listed |-> r.listed]

\* the same zlib-wrapped archive is read once more, in a new process, with the inflater
\* fed and drained in another rhythm
ReadAgain ==
    /\ tool = "sarc_read" /\ rd.pc # "loop"
    /\ env.run = 1 /\ env.feed.compressed
    /\ \E f \in Feeds :
          /\ f.compressed
          /\ env' = [env EXCEPT !.run = 2, !.feed = f, !.prev = <<Outcome(rd)>>]
    /\ rd' = ReadStart
    /\ UNCHANGED <<tool, hs, sv, enc, dec, lib, px, tx>>

NextRead ==
    \/ ReadMore
    \/ LoopExit
    \/ StateSarcHeader
    \/ StateSfatHeader
    \/ StateSfatData
    \/ StateSfntHeader
    \/ StateSfntData
    \/ StateFileData
    \/ ReadAgain

SpecRead == InitRead /\ [][NextRead]_vars

\* the interpreter keeps executing the loop
FairSpecRead == SpecRead /\ WF_vars(NextRead)

----------------------------------------------------------------------------
(* Bffnt create path: load (191-270), save (345-524) *)

FFNT_HEADER_SIZE == 20

FINF_HEADER_SIZE == 32

TGLP_HEADER_SIZE == 32

CWDH_HEADER_SIZE == 16

CMAP_HEADER_SIZE == 20

TGLP_DATA_OFFSET == 8192

\* sheets of one font
MaxSheets == 2

\* glyphs of one font
MaxGlyphs == 2

\* len(data) of one sheet as _sheet_to_bitmap returns it
SheetSizes == {128, 512}

\* the fonts a manifest describes: the number of sheets, the bytes of one sheet, the
\* first sheet whose PNG has the wrong size (0: none), the glyphs with a width entry
\* (keys "0", "1", ...), the entries of the character map, and whether colorFormat is
\* one of the names of PIXEL_FORMATS
Fonts ==
    [sheetCount : 0..MaxSheets, sheet_len : SheetSizes, bad_sheet : 0..MaxSheets,
     glyphs : 1..MaxGlyphs, entries : 1..MaxGlyphs, known_format : BOOLEAN]

\* lines 352-356
BffntBom(order) == IF order = ">" THEN 65534 ELSE IF order = "<" THEN 65279 ELSE 0

RECURSIVE SaveSheets(_, _, _)
\* the loop of lines 409-435 from sheet idx on, with st = [f, position, invalid]
SaveSheets(font, idx, st) ==
    IF idx > font.sheetCount THEN st
    ELSE IF font.bad_sheet = idx THEN [st EXCEPT !.invalid = TRUE]
    ELSE SaveSheets(font, idx + 1,
             [st EXCEPT !.f = FileWrite(@, font.sheet_len),
                        !.position = @ + font.sheet_len])

\* seek(at), write a 32-bit value, seek(position): lines 393-395, 437-442, 469-475, ...
Patch(st, at) == [st EXCEPT !.f = FileSeek(FileWrite(FileSeek(@, at), 4), st.position)]

\* one CWDH section (lines 447-471): header, three bytes for every code in
\* start..end, then the size of the section
SaveCwdh(st, glyphs) ==
    LET written == [st EXCEPT !.f = FileWrite(@, CWDH_HEADER_SIZE + 3 * glyphs),
                              !.position = @ + CWDH_HEADER_SIZE + 3 * glyphs]
    IN  Patch(written, st.position + 4)

\* one CMAP section of type MAPPING_SCAN (lines 480-517): header, the number of
\* entries, four bytes for every entry, then the size of the section
SaveCmap(st, entries) ==
    LET written == [st EXCEPT !.f = FileWrite(@, CMAP_HEADER_SIZE + 2 + 4 * entries),
                              !.position = @ + CMAP_HEADER_SIZE + 2 + 4 * entries]
    IN  Patch(written, st.position + 4)

\* lines 116-118
MAPPING_DIRECT == 0
MAPPING_TABLE == 1
MAPPING_SCAN == 2

\* the width record of glyph k: the three values of one CWDH record
WidthOf(k) == [left |-> k - 1, glyph |-> 8 + k, char |-> 9 + k]

\* load() (231-268): the CWDH section and the CMAP section made from the manifest
\* for a manifest with `glyphs' width records, keyed "0", "1", ..., and a glyph map of
\* `entries' characters from U+FF21 on
LoadedCwdh(glyphs) ==
    [start |-> 0, end |-> glyphs - 1, data |-> [i \in 1..glyphs |-> WidthOf(i - 1)]]

LoadedCmap(entries) ==
    [type |-> MAPPING_SCAN, start |-> 65313, end |-> 65313 + entries - 1,
     indexOffset |-> 0, indexTable |-> <<>>,
     entries |-> [code \in 65313..(65313 + entries - 1) |-> code - 65313]]

\* line 459: the end index packed into the CWDH header; struct raises when the 'H'
\* field is given a negative number
CwdhEndStored(cwdh) == cwdh.end - 1

\* line 521: the value written at file_size_pos
FontSize(position) == position

\* save() (345-524): what the file holds afterwards
SaveFont(font, order) ==
    LET \* header and FINF (363-380)
        f0 == FileWrite(FileWrite(NewFile, FFNT_HEADER_SIZE), FINF_HEADER_SIZE)
        position0 == FFNT_HEADER_SIZE + FINF_HEADER_SIZE
        \* the TGLP offset in FINF, the TGLP header, seek to the sheet data (393-405)
        st0 == Patch([f |-> f0, position |-> position0, invalid |-> FALSE],
                     FFNT_HEADER_SIZE + 20)
        st1 == [st0 EXCEPT !.f = FileSeek(FileWrite(@, TGLP_HEADER_SIZE), TGLP_DATA_OFFSET),
                           !.position = TGLP_DATA_OFFSET]
        st2 == SaveSheets(font, 1, st1)
        \* the TGLP size and the CWDH offset (437-442)
        st3 == Patch(Patch(st2, position0 + 4), FFNT_HEADER_SIZE + 24)
        st4 == SaveCwdh(st3, font.glyphs)
        \* the CMAP offset (473-475)
        st5 == Patch(st4, FFNT_HEADER_SIZE + 28)
        st6 == SaveCmap(st5, font.entries)
        \* the file size and the section count (519-524)
        st7 == [st6 EXCEPT !.f = FileWrite(FileSeek(FileWrite(FileSeek(@, 12), 4), 16), 4)]
        unfinished == [complete |-> FALSE, raised |-> FALSE, invalid |-> FALSE,
                       bom |-> PackU16(order, BffntBom(order)),
                       size_bytes |-> PackU32(order, 0), length |-> 0]
    IN  IF st2.invalid
           THEN [unfinished EXCEPT !.invalid = TRUE, !.length = st2.f.len]
        ELSE IF CwdhEndStored(LoadedCwdh(font.glyphs)) < 0
           THEN [unfinished EXCEPT !.raised = TRUE, !.length = st3.f.len]
        ELSE [unfinished EXCEPT !.complete = TRUE,
                                !.size_bytes = PackU32(order, FontSize(st6.position)),
                                !.length = st7.f.len]

InitBffntSave ==
    /\ tool = "bffnt_create"
    /\ enc \in {[pc |-> "new", load_order |-> o, order |-> "none", font |-> <<>>,
                 invalid |-> FALSE, out |-> <<>>] : o \in {"<", ">"}}
    /\ hs = Idle /\ sv = Idle /\ rd = Idle /\ env = Idle /\ dec = Idle /\ lib = Idle /\ px = Idle /\ tx = Idle

\* load(json_filename) (191-268): a colorFormat that is not a name of PIXEL_FORMATS
\* sets invalid (lines 201-210)
BffntLoad ==
    /\ tool = "bffnt_create" /\ enc.pc = "new"
    /\ \E font \in Fonts :
          /\ font.bad_sheet <= font.sheetCount
          /\ enc' = [enc EXCEPT !.pc = "loaded", !.order = enc.load_order,
                                !.font = <<font>>, !.invalid = ~font.known_format]
    /\ UNCHANGED <<tool, hs, sv, rd, env, dec, lib, px, tx>>

\* save(filename) (345-524), which main calls only when load() left invalid unset
\* (lines 1236-1238)
BffntSave ==
    /\ tool = "bffnt_create" /\ enc.pc = "loaded" /\ ~enc.invalid
    /\ LET out == SaveFont(enc.font[1], enc.order)
       IN  enc' = [enc EXCEPT !.pc = IF out.raised THEN "raised" ELSE "saved",
                             !.out = out, !.invalid = out.invalid]
    /\ UNCHANGED <<tool, hs, sv, rd, env, dec, lib, px, tx>>

NextBffntSave == BffntLoad \/ BffntSave

\* the byte order Bffnt._parse_header takes from the BOM bytes (lines 529-533)
BffntOrderOfBom(bom) ==
    IF UnpackU16(">", bom) = 65534 THEN "<"
    ELSE IF UnpackU16(">", bom) = 65279 THEN ">"
    ELSE "none"

----------------------------------------------------------------------------
(* Bflim create path: load (225-245), save (247-272) *)

FLIM_HEADER_SIZE == 20

IMAG_HEADER_SIZE == 20

\* len(self.bmp) as _data_to_bitmap returns it
BmpSizes == {0, 64, 256}

\* the byte orders '=' of FLIM_HEADER_STRUCT can stand for: the order of the machine
HostOrders == {"<", ">"}

\* lines 252-255
BflimBom(big_endian) == IF big_endian THEN 65534 ELSE 65279

\* save() (247-272): what the file holds afterwards
SaveImage(bmp_len, big_endian, order, host) ==
    LET f0 == FileWrite(NewFile, bmp_len)
        size_offset == f0.pos + 12
        f1 == FileWrite(FileWrite(f0, FLIM_HEADER_SIZE), IMAG_HEADER_SIZE)
        size == f1.pos
        f2 == FileWrite(FileSeek(f1, size_offset), 4)
    IN  [complete |-> TRUE, bom |-> PackU16(host, BflimBom(big_endian)),
         size_bytes |-> PackU32(order, size), length |-> f2.len]

InitBflimSave ==
    /\ tool = "bflim_create"
    /\ enc \in {[pc |-> "new", big_endian |-> b, host |-> h, order |-> "none",
                 bmp_len |-> 0, out |-> <<>>] : b \in BOOLEAN, h \in HostOrders}
    /\ hs = Idle /\ sv = Idle /\ rd = Idle /\ env = Idle /\ dec = Idle /\ lib = Idle /\ px = Idle /\ tx = Idle

\* load(filename) (225-245)
BflimLoad ==
    /\ tool = "bflim_create" /\ enc.pc = "new"
    /\ \E n \in BmpSizes :
          enc' = [enc EXCEPT !.pc = "loaded", !.bmp_len = n,
                             !.order = IF enc.big_endian THEN ">" ELSE "<"]
    /\ UNCHANGED <<tool, hs, sv, rd, env, dec, lib, px, tx>>

\* save(output_filename) (247-272)
BflimSave ==
    /\ tool = "bflim_create" /\ enc.pc = "loaded"
    /\ enc' = [enc EXCEPT !.pc = "saved",
                          !.out = SaveImage(enc.bmp_len, enc.big_endian, enc.order, enc.host)]
    /\ UNCHANGED <<tool, hs, sv, rd, env, dec, lib, px, tx>>

NextBflimSave == BflimLoad \/ BflimSave

\* the byte order Bflim._parse_flim_header takes from the BOM (lines 284-287), the header
\* being unpacked in the order of the machine
BflimOrderOfBom(host, bom) ==
    IF UnpackU16(host, bom) = 65534 THEN ">"
    ELSE IF UnpackU16(host, bom) = 65279 THEN "<"
    ELSE "none"

----------------------------------------------------------------------------
(* The three encoders *)

InitEncode == InitSave \/ InitBffntSave \/ InitBflimSave

NextEncode == NextSave \/ NextBffntSave \/ NextBflimSave

SpecEncode == InitEncode /\ [][NextEncode]_vars

----------------------------------------------------------------------------
(* Bffnt.read: the header (144-151, 528-562) *)

\* VERSIONS (line 17) as <<hi, lo>>: 0x04000000 and 0x03000000
VERSIONS == {U32(1024, 0), U32(768, 0)}

\* A CWDH section of a file: the magic, the two indices of its header and the n width
\* records that follow the header, the first one for glyph `start'.
CwdhSection(start, end, n) ==
    [magic |-> "CWDH", start |-> start, end |-> end,
     data |-> [i \in 1..n |-> WidthOf(start + i - 1)]]

\* A CMAP section of a file: the magic, the fields of its header and the data behind
\* it: the index offset (Direct), the table (Table) or the (code, index) pairs (Scan).
CmapDirect(start, end, indexOffset) ==
    [magic |-> "CMAP", type |-> MAPPING_DIRECT, start |-> start, end |-> end,
     indexOffset |-> indexOffset, indexTable |-> <<>>, entries |-> <<>>]

CmapTable(start, end, indexTable) ==
    [magic |-> "CMAP", type |-> MAPPING_TABLE, start |-> start, end |-> end,
     indexOffset |-> 0, indexTable |-> indexTable, entries |-> <<>>]

CmapScan(start, end, entries) ==
    [magic |-> "CMAP", type |-> MAPPING_SCAN, start |-> start, end |-> end,
     indexOffset |-> 0, indexTable |-> <<>>, entries |-> entries]

\* A font file is described by the bytes of its header fields, by `length', the number
\* of bytes of the file, and by its sections in the order their offsets chain them:
\* the magic and size of FINF, the magic and sheet count of TGLP, the CWDH sections
\* and the CMAP sections.
FontHeader(bom, order, file_size, length) ==
    [bom |-> bom, magic |-> "FFNT", header_size |-> PackU16(order, FFNT_HEADER_SIZE),
     version |-> PackU32(order, 67108864), file_size |-> PackU32(order, file_size),
     length |-> length,
     finf_magic |-> "FINF", finf_size |-> PackU32(order, FINF_HEADER_SIZE),
     tglp_magic |-> "TGLP", sheetCount |-> 1,
     cwdh |-> <<CwdhSection(0, 1, 2)>>,
     cmap |-> <<CmapScan(65313, 65314, (65313 :> 0) @@ (65314 :> 1))>>]

\* the header save() writes for a font of n bytes (lines 351-363, 519-521)
FontHeaderSaved(order, n) == FontHeader(PackU16(order, BffntBom(order)), order, n, n)

\* files with a sound header: sound sections, and sections with one defect each
SectionFiles ==
    LET little == FontHeader(<<255, 254>>, "<", 8237, 8237)
        big == FontHeader(<<254, 255>>, ">", 8237, 8237)
        direct == CmapDirect(32, 127, 1)
        scan == CmapScan(65313, 65314, (65313 :> 100) @@ (65314 :> 101))
        table == CmapTable(48, 50, <<5, 65535, 7>>)
    IN  { [little EXCEPT !.finf_magic = "FINX"],
          [little EXCEPT !.finf_size = PackU32("<", 36)],
          [big EXCEPT !.finf_size = PackU32("<", FINF_HEADER_SIZE)],
          [little EXCEPT !.tglp_magic = "TGLX"],
          [little EXCEPT !.sheetCount = 0],
          [big EXCEPT !.sheetCount = 2],
          [little EXCEPT !.cwdh = <<>>, !.cmap = <<>>],
          [little EXCEPT !.cwdh = <<[CwdhSection(0, 1, 2) EXCEPT !.magic = "CWDX"]>>],
          [little EXCEPT !.cwdh = <<CwdhSection(0, 1, 2),
                                    [CwdhSection(2, 2, 1) EXCEPT !.magic = "CWDX"]>>],
          [little EXCEPT !.cwdh = <<CwdhSection(0, 1, 2), CwdhSection(2, 3, 2)>>],
          [little EXCEPT !.cwdh = <<CwdhSection(0, 3, 2)>>],
          [little EXCEPT !.cwdh = <<CwdhSection(0, 0, 2)>>],
          [little EXCEPT !.cmap = <<[scan EXCEPT !.magic = "CMAX"]>>],
          [little EXCEPT !.cmap = <<direct, [scan EXCEPT !.magic = "CMAX"]>>],
          [little EXCEPT !.cmap = <<direct, scan>>],
          [big EXCEPT !.cmap = <<table, scan>>],
          [little EXCEPT !.cmap = <<CmapTable(48, 50, <<5, 6>>)>>],
          [little EXCEPT !.cmap = <<[scan EXCEPT !.type = 3]>>] }

FontFiles ==
    LET little == FontHeader(<<255, 254>>, "<", 8237, 8237)
        big == FontHeader(<<254, 255>>, ">", 8237, 8237)
    IN  { little, big,
          FontHeaderSaved("<", 8365), FontHeaderSaved(">", 8365),
          [little EXCEPT !.magic = "FFNU"],
          [little EXCEPT !.file_size = PackU32("<", 8238)],
          [big EXCEPT !.file_size = PackU32(">", 8236)],
          [little EXCEPT !.length = 8365],
          [little EXCEPT !.bom = <<0, 0>>],
          [little EXCEPT !.bom = <<0, 0>>, !.length = 8365],
          [little EXCEPT !.magic = "TNFF"],
          [little EXCEPT !.magic = "TNFF", !.length = 8365],
          [little EXCEPT !.version = PackU32("<", 33554432)],
          [little EXCEPT !.header_size = PackU16("<", 16)],
          [little EXCEPT !.header_size = PackU16("<", 16), !.file_size = PackU32("<", 1)],
          [little EXCEPT !.file_size = PackU32("<", 10), !.length = 10],
          [little EXCEPT !.file_size = PackU32("<", 4), !.length = 4] }
    \cup SectionFiles

\* _parse_header (528-562) on data[:FFNT_HEADER_SIZE] of a file: the checks in their
\* order.  struct raises on data that is too short, and the message for an unknown
\* version names two variables that do not exist.
\* `held' is self.order before the call: the BOM assigns self.order only when it is
\* one of the two marks (lines 530-533), and line 535 tests self.order
FontParseHeaderFrom(held, file) ==
    LET order == IF BffntOrderOfBom(file.bom) # "none" THEN BffntOrderOfBom(file.bom)
                 ELSE held
    IN  IF file.length < 6 THEN [pc |-> "raised", order |-> held, how |-> "struct.error"]
        ELSE IF order = "none" THEN [pc |-> "returned", order |-> order, how |-> "bom"]
        ELSE IF file.length < FFNT_HEADER_SIZE
             THEN [pc |-> "raised", order |-> order, how |-> "struct.error"]
        ELSE IF file.magic \notin {"FFNT", "FFNU"}
             THEN [pc |-> "returned", order |-> order, how |-> "magic"]
        ELSE IF UnpackU32(order, file.version) \notin VERSIONS
             THEN [pc |-> "raised", order |-> order, how |-> "NameError"]
        ELSE IF UnpackU16(order, file.header_size) # FFNT_HEADER_SIZE
             THEN [pc |-> "returned", order |-> order, how |-> "header size"]
        ELSE IF UnpackU32(order, file.file_size) # ToU32(file.length)
             THEN [pc |-> "returned", order |-> order, how |-> "file size"]
        ELSE [pc |-> "finf", order |-> order, how |-> "ok"]

\* _parse_header of an instance that holds no order yet
FontParseHeader(file) == FontParseHeaderFrom("none", file)

\* The instance before read(): order None, invalid False, font_info and tglp empty,
\* the section lists empty (lines 130-137); `next' is the section the next offset
\* leads to.
InitBffntRead ==
    /\ tool = "bffnt_read"
    /\ dec \in {[pc |-> "header", file |-> f, file_size |-> 0, order |-> "none",
                 invalid |-> FALSE, how |-> "running", font_info |-> FALSE,
                 tglp |-> FALSE, cwdh_sections |-> <<>>, cmap_sections |-> <<>>,
                 sheets |-> 0, next |-> 1, glyph_widths |-> <<>>,
                 glyph_mapping |-> <<>>] : f \in FontFiles}
    /\ hs = Idle /\ sv = Idle /\ rd = Idle /\ env = Idle /\ enc = Idle /\ lib = Idle /\ px = Idle /\ tx = Idle

\* read(filename), lines 144-151: the file is read, its header parsed; the sections are
\* parsed only if the header was accepted
BffntReadHeader ==
    /\ tool = "bffnt_read" /\ dec.pc = "header"
    /\ LET parsed == FontParseHeader(dec.file)
       IN  dec' = [dec EXCEPT !.pc = parsed.pc, !.order = parsed.order, !.how = parsed.how,
                              !.file_size = dec.file.length,
                              !.invalid = (parsed.pc = "returned")]
    /\ UNCHANGED <<tool, hs, sv, rd, env, enc, lib, px, tx>>

\* _parse_finf (574-623) on the FINF header, lines 153-155 of read()
BffntReadFinf ==
    /\ tool = "bffnt_read" /\ dec.pc = "finf"
    /\ dec' = IF dec.file.finf_magic # "FINF"
                 THEN [dec EXCEPT !.pc = "returned", !.invalid = TRUE, !.how = "finf magic"]
              ELSE IF UnpackU32(dec.order, dec.file.finf_size) # ToU32(FINF_HEADER_SIZE)
                 THEN [dec EXCEPT !.pc = "returned", !.invalid = TRUE, !.how = "finf size"]
              ELSE [dec EXCEPT !.pc = "tglp", !.font_info = TRUE]
    /\ UNCHANGED <<tool, hs, sv, rd, env, enc, lib, px, tx>>

\* where read() goes once section i of the CWDH chain is done: the next offset is 0
\* behind the last section of a chain (lines 163-172, 175-184)
AfterCwdh(file, i) ==
    IF i < Len(file.cwdh) THEN "cwdh"
    ELSE IF Len(file.cmap) > 0 THEN "cmap" ELSE "tglp_data"

AfterCmap(file, i) == IF i < Len(file.cmap) THEN "cmap" ELSE "tglp_data"

\* _parse_tglp_header (625-668), lines 157-161 of read()
BffntReadTglpHeader ==
    /\ tool = "bffnt_read" /\ dec.pc = "tglp"
    /\ dec' = IF dec.file.tglp_magic # "TGLP"
                 THEN [dec EXCEPT !.pc = "returned", !.invalid = TRUE, !.how = "tglp magic"]
              ELSE [dec EXCEPT !.pc = AfterCwdh(dec.file, 0), !.tglp = TRUE, !.next = 1]
    /\ UNCHANGED <<tool, hs, sv, rd, env, enc, lib, px, tx>>

\* _parse_cwdh_data (1084-1096): end - start + 1 records are unpacked from the data
\* of the section; struct raises when the data ends before that
CwdhCount(section) == section.end - section.start + 1

CwdhData(section) == SubSeq(section.data, 1, CwdhCount(section))

\* one round of the loop of lines 164-172: _parse_cwdh_header (1060-1082), then
\* _parse_cwdh_data on the section just appended
BffntReadCwdh ==
    /\ tool = "bffnt_read" /\ dec.pc = "cwdh"
    /\ LET section == dec.file.cwdh[dec.next]
           info == [start |-> section.start, end |-> section.end, data |-> <<>>]
       IN  dec' = IF section.magic # "CWDH"
                     THEN [dec EXCEPT !.pc = "returned", !.invalid = TRUE,
                                      !.how = "cwdh magic"]
                  ELSE IF CwdhCount(section) > Len(section.data)
                     THEN [dec EXCEPT !.pc = "raised", !.how = "struct.error",
                                      !.cwdh_sections = Append(@, info)]
                  ELSE [dec EXCEPT !.pc = AfterCwdh(dec.file, dec.next),
                                   !.next = IF dec.next < Len(dec.file.cwdh)
                                            THEN dec.next + 1 ELSE 1,
                                   !.cwdh_sections =
                                       Append(@, [info EXCEPT !.data = CwdhData(section)])]
    /\ UNCHANGED <<tool, hs, sv, rd, env, enc, lib, px, tx>>

\* _parse_cmap_header (1098-1122): a wrong magic is printed and nothing else; the
\* section is appended whatever the magic is
CmapHeaderInvalid(section) == FALSE

\* _parse_cmap_data (1124-1153): what the section just appended receives
CmapData(section) ==
    LET info == [type |-> section.type, start |-> section.start, end |-> section.end,
                 indexOffset |-> 0, indexTable |-> <<>>, entries |-> <<>>]
    IN  IF section.type = MAPPING_DIRECT
           THEN [info EXCEPT !.indexOffset = section.indexOffset]
        ELSE IF section.type = MAPPING_TABLE
           THEN [info EXCEPT !.indexTable =
                                IF section.end - section.start + 1 > Len(section.indexTable)
                                THEN <<>>
                                ELSE SubSeq(section.indexTable, 1,
                                            section.end - section.start + 1)]
        ELSE IF section.type = MAPPING_SCAN
           THEN [info EXCEPT !.entries = section.entries]
        ELSE info

\* struct raises when the table ends before end - start + 1 entries
CmapDataShort(section) ==
    /\ section.type = MAPPING_TABLE
    /\ section.end - section.start + 1 > Len(section.indexTable)

\* one round of the loop of lines 176-184
BffntReadCmap ==
    /\ tool = "bffnt_read" /\ dec.pc = "cmap"
    /\ LET section == dec.file.cmap[dec.next]
       IN  dec' = IF CmapHeaderInvalid(section)
                     THEN [dec EXCEPT !.pc = "returned", !.invalid = TRUE,
                                      !.how = "cmap magic"]
                  ELSE IF CmapDataShort(section)
                     THEN [dec EXCEPT !.pc = "raised", !.how = "struct.error",
                                      !.cmap_sections = Append(@, CmapData(section))]
                  ELSE [dec EXCEPT !.pc = AfterCmap(dec.file, dec.next),
                                   !.next = IF dec.next < Len(dec.file.cmap)
                                            THEN dec.next + 1 ELSE 1,
                                   !.cmap_sections = Append(@, CmapData(section))]
    /\ UNCHANGED <<tool, hs, sv, rd, env, enc, lib, px, tx>>

\* _parse_tglp_data (670-685), line 187 of read(): one bitmap for every sheet
BffntReadTglpData ==
    /\ tool = "bffnt_read" /\ dec.pc = "tglp_data"
    /\ dec' = [dec EXCEPT !.pc = "done", !.sheets = dec.file.sheetCount]
    /\ UNCHANGED <<tool, hs, sv, rd, env, enc, lib, px, tx>>

\* a dict updated with the items of another
Update(f, g) ==
    [k \in (DOMAIN f) \cup (DOMAIN g) |-> IF k \in DOMAIN g THEN g[k] ELSE f[k]]

\* lines 280-281 for one section
CwdhWidths(cwdh) ==
    [index \in cwdh.start..cwdh.end |-> cwdh.data[index - cwdh.start + 1]]

\* lines 285-301 for one section; range(start, end) leaves `end' out
CmapMapping(cmap) ==
    IF cmap.type = MAPPING_DIRECT
       THEN [code \in cmap.start..(cmap.end - 1) |-> code - cmap.start + cmap.indexOffset]
    ELSE IF cmap.type = MAPPING_TABLE
       THEN [code \in {c \in cmap.start..(cmap.end - 1) :
                            cmap.indexTable[c - cmap.start + 1] # 65535}
                |-> cmap.indexTable[code - cmap.start + 1]]
    ELSE IF cmap.type = MAPPING_SCAN THEN cmap.entries
    ELSE <<>>

RECURSIVE GlyphWidths(_, _)
\* lines 278-281 for the first i sections
GlyphWidths(sections, i) ==
    IF i = 0 THEN <<>>
    ELSE Update(GlyphWidths(sections, i - 1), CwdhWidths(sections[i]))

RECURSIVE GlyphMapping(_, _)
\* lines 283-301 for the first i sections
GlyphMapping(sections, i) ==
    IF i = 0 THEN <<>>
    ELSE Update(GlyphMapping(sections, i - 1), CmapMapping(sections[i]))

\* extract() (273-344), called by main only when read() left invalid unset (1232-1234)
BffntExtract ==
    /\ tool = "bffnt_read" /\ dec.pc = "done" /\ ~dec.invalid
    /\ dec' = [dec EXCEPT !.pc = "extracted",
                          !.glyph_widths =
                              GlyphWidths(dec.cwdh_sections, Len(dec.cwdh_sections)),
                          !.glyph_mapping =
                              GlyphMapping(dec.cmap_sections, Len(dec.cmap_sections))]
    /\ UNCHANGED <<tool, hs, sv, rd, env, enc, lib, px, tx>>

NextBffntRead ==
    \/ BffntReadHeader
    \/ BffntReadFinf
    \/ BffntReadTglpHeader
    \/ BffntReadCwdh
    \/ BffntReadCmap
    \/ BffntReadTglpData
    \/ BffntExtract

----------------------------------------------------------------------------
(* Bflim.read: the headers (141-153, 275-327) *)

\* An image file is described by the bytes of its FLIM header fields, the magic of
\* its imag header and by `length', the number of bytes of the file.
ImageHeader(host, big_endian, size_order, file_size, length) ==
    [bom |-> PackU16(host, BflimBom(big_endian)), magic |-> "FLIM",
     header_size |-> PackU16(host, FLIM_HEADER_SIZE),
     file_size |-> PackU32(size_order, file_size),
     imag_magic |-> "imag", length |-> length]

ImageFiles(host) ==
    LET plain == ImageHeader(host, host = ">", host, 296, 296)
    IN  { plain,
          \* as save() writes them: the size in the order asked for
          ImageHeader(host, FALSE, "<", 296, 296),
          ImageHeader(host, TRUE, ">", 296, 296),
          ImageHeader(host, TRUE, ">", 40, 40),
          [plain EXCEPT !.file_size = PackU32(host, 297)],
          [plain EXCEPT !.file_size = PackU32(host, 0)],
          [plain EXCEPT !.length = 104],
          [plain EXCEPT !.file_size = PackU32(host, 297), !.imag_magic = "gami"],
          [plain EXCEPT !.imag_magic = "gami"],
          [plain EXCEPT !.magic = "MILF"],
          [plain EXCEPT !.magic = "MILF", !.length = 104],
          [plain EXCEPT !.bom = <<0, 0>>],
          [plain EXCEPT !.bom = <<0, 0>>, !.length = 104],
          [plain EXCEPT !.header_size = PackU16(host, 16)],
          [plain EXCEPT !.header_size = PackU16(host, 16), !.length = 104],
          [plain EXCEPT !.file_size = PackU32(host, 30), !.length = 30] }

\* line 299: the size in the header, unpacked in the order of the machine, is not
\* the size of the file
ImageSizeMismatch(host, file) == UnpackU32(host, file.file_size) # ToU32(file.length)

\* _parse_flim_header (275-312) on the 20 bytes in front of the imag header: the
\* checks in their order.  struct raises when the file has no room for both headers.
\* `held' is self.order before the call: the BOM assigns self.order only when it is
\* one of the two marks (lines 284-287), and line 289 tests self.order
ImageParseFlimHeaderFrom(held, host, file) ==
    LET order == IF BflimOrderOfBom(host, file.bom) # "none"
                 THEN BflimOrderOfBom(host, file.bom) ELSE held
    IN  IF file.length < FLIM_HEADER_SIZE + IMAG_HEADER_SIZE
        THEN [pc |-> "raised", order |-> held, how |-> "struct.error", warned |-> FALSE]
        ELSE IF file.magic # "FLIM"
             THEN [pc |-> "returned", order |-> held, how |-> "magic", warned |-> FALSE]
        ELSE IF order = "none"
             THEN [pc |-> "returned", order |-> order, how |-> "bom", warned |-> FALSE]
        ELSE IF UnpackU16(host, file.header_size) # FLIM_HEADER_SIZE
             THEN [pc |-> "returned", order |-> order, how |-> "header size", warned |-> FALSE]
        ELSE [pc |-> "imag_header", order |-> order, how |-> "running",
              warned |-> ImageSizeMismatch(host, file)]

\* _parse_flim_header of an instance that holds no order yet
ImageParseFlimHeader(host, file) == ImageParseFlimHeaderFrom("none", host, file)

InitBflimRead ==
    /\ tool = "bflim_read"
    /\ dec \in {[pc |-> "flim_header", file |-> f, host |-> h, file_size |-> 0,
                 order |-> "none", invalid |-> FALSE, warned |-> FALSE,
                 imag |-> FALSE, how |-> "running"] :
                    h \in HostOrders, f \in ImageFiles("<") \cup ImageFiles(">")}
    /\ hs = Idle /\ sv = Idle /\ rd = Idle /\ env = Idle /\ enc = Idle /\ lib = Idle /\ px = Idle /\ tx = Idle

\* read(filename), lines 141-151: the file is read and its FLIM header parsed
BflimReadFlimHeader ==
    /\ tool = "bflim_read" /\ dec.pc = "flim_header"
    /\ LET parsed == ImageParseFlimHeader(dec.host, dec.file)
       IN  dec' = [dec EXCEPT !.pc = parsed.pc, !.order = parsed.order, !.how = parsed.how,
                              !.warned = parsed.warned,
                              !.file_size = dec.file.length,
                              !.invalid = (parsed.pc = "returned")]
    /\ UNCHANGED <<tool, hs, sv, rd, env, enc, lib, px, tx>>

\* read(filename), lines 153-155 with _parse_imag_header (318-327)
BflimReadImagHeader ==
    /\ tool = "bflim_read" /\ dec.pc = "imag_header"
    /\ dec' = IF dec.file.imag_magic # "imag"
              THEN [dec EXCEPT !.pc = "returned", !.invalid = TRUE, !.how = "imag magic"]
              ELSE [dec EXCEPT !.pc = "image", !.imag = TRUE, !.how = "ok"]
    /\ UNCHANGED <<tool, hs, sv, rd, env, enc, lib, px, tx>>

NextBflimRead == BflimReadFlimHeader \/ BflimReadImagHeader

----------------------------------------------------------------------------
(* The three decoders *)

InitDecode == InitRead \/ InitBffntRead \/ InitBflimRead

NextDecode == NextRead \/ NextBffntRead \/ NextBflimRead

SpecDecode == InitDecode /\ [][NextDecode]_vars

----------------------------------------------------------------------------
(* A font written by Bffnt.save and read by Bffnt.read *)

\* the version of the manifests: 0x04000000
ManifestVersion == 67108864

\* The file save() leaves for a font (345-524), as Bffnt.read takes it in: the header
\* fields packed in self.order, the CWDH header with the end index of line 459 and
\* one record for every index of range(start, end + 1) (lines 463-467), the CMAP
\* section of load().  The widths are bytes below 128, which '=b' writes as
\* 'b2B' reads them.
SavedFile(font, order, out) ==
    [bom |-> out.bom, magic |-> "FFNT",
     header_size |-> PackU16(order, FFNT_HEADER_SIZE),
     version |-> PackU32(order, ManifestVersion),
     file_size |-> out.size_bytes, length |-> out.length,
     finf_magic |-> "FINF", finf_size |-> PackU32(order, FINF_HEADER_SIZE),
     tglp_magic |-> "TGLP", sheetCount |-> font.sheetCount,
     cwdh |-> <<[magic |-> "CWDH", start |-> LoadedCwdh(font.glyphs).start,
                 end |-> CwdhEndStored(LoadedCwdh(font.glyphs)),
                 data |-> LoadedCwdh(font.glyphs).data]>>,
     cmap |-> <<[magic |-> "CMAP", type |-> MAPPING_SCAN,
                 start |-> LoadedCmap(font.entries).start,
                 end |-> LoadedCmap(font.entries).end,
                 indexOffset |-> 0, indexTable |-> <<>>,
                 entries |-> LoadedCmap(font.entries).entries]>>]

\* bffnt.py -x on the file a finished bffnt.py -c has written: a new process and a
\* new instance (lines 1229-1234)
BffntReopen ==
    /\ tool = "bffnt_create" /\ enc.pc = "saved" /\ enc.out.complete
    /\ tool' = "bffnt_read"
    /\ dec' = [pc |-> "header", file |-> SavedFile(enc.font[1], enc.order, enc.out),
               file_size |-> 0, order |-> "none", invalid |-> FALSE, how |-> "running",
               font_info |-> FALSE, tglp |-> FALSE, cwdh_sections |-> <<>>,
               cmap_sections |-> <<>>, sheets |-> 0, next |-> 1, glyph_widths |-> <<>>,
               glyph_mapping |-> <<>>]
    /\ UNCHANGED <<hs, sv, rd, env, enc, lib, px, tx>>

NextRoundTrip == NextBffntSave \/ BffntReopen \/ NextBffntRead

SpecRoundTrip == InitBffntSave /\ [][NextRoundTrip]_vars

----------------------------------------------------------------------------
(* Class attributes and instances: Sarc (41-47), Bffnt (129-137) *)

\* the instances one process makes
Instances == {"A", "B"}

\* calls one process makes on its instances
MaxCalls == 3

\* The mutable class attributes: `files = []' and `file_nodes = []' in the body of
\* class Sarc, `cwdh_sections = []' and `cmap_sections = []' in the body of class
\* Bffnt.  Each is one list object, made when the class statement runs.
ClassAttributes(kind) ==
    IF kind = "Sarc" THEN [files |-> <<>>, file_nodes |-> <<>>]
    ELSE [cwdh_sections |-> <<>>, cmap_sections |-> <<>>]

\* the attributes of a new instance: neither __init__ (sarc.py 49-71, bffnt.py 139-142)
\* assigns one of the lists, so the instance has none of its own
NewInstance == [assigned |-> FALSE, cwdh_sections |-> <<>>, cmap_sections |-> <<>>]

\* self.name: the attribute of the instance if it has been assigned, else the
\* attribute of the class
Attr(i, name) == IF lib.own[i].assigned THEN lib.own[i][name] ELSE lib.class[name]

\* self.name.append(...) and self.name.sort(...): the list object self.name stands
\* for becomes `value'
Mutated(i, name, value) ==
    IF lib.own[i].assigned THEN [lib EXCEPT !.own[i][name] = value]
    ELSE [lib EXCEPT !.class[name] = value]

\* archives and fonts the process reads, sources it adds
InstanceArchives ==
    {arc \in WellFormedArchives :
        arc.bom = BomLittle /\ arc.hash_mult = SFAT_HASH_MULTIPLIER
        /\ arc.node_count \in 1..2 /\ arc.data_offset = 256}

InstanceFonts ==
    LET little == FontHeader(<<255, 254>>, "<", 8237, 8237)
    IN  {little, [little EXCEPT !.cwdh = <<CwdhSection(0, 1, 2), CwdhSection(2, 3, 2)>>,
                                !.cmap = <<CmapDirect(32, 127, 1)>>]}

\* _parse_fat_nodes and _parse_fnt_data of a sound archive, on the list `nodes'
ReadNodes(arc, nodes) ==
    ParseFntData(arc, nodes \o ParsedNodes(arc), 1, Len(arc.fnt) + 1, arc.hash_mult).nodes

\* the loops of lines 163-184 of Bffnt.read on a sound font, on the two lists
ReadCwdhSections(file, sections) ==
    sections \o [n \in 1..Len(file.cwdh) |->
                     [start |-> file.cwdh[n].start, end |-> file.cwdh[n].end,
                      data |-> CwdhData(file.cwdh[n])]]

ReadCmapSections(file, sections) ==
    sections \o [n \in 1..Len(file.cmap) |-> CmapData(file.cmap[n])]

\* One process, nothing made yet.  `given' records, for every instance, the lists its
\* own calls have built.
InitInstances ==
    /\ tool = "library"
    /\ lib \in {[kind |-> kind, class |-> ClassAttributes(kind),
                 made |-> [i \in Instances |-> FALSE],
                 mode |-> [i \in Instances |-> "none"],
                 own |-> [i \in Instances |-> NewInstance],
                 given |-> [i \in Instances |-> ClassAttributes(kind)],
                 calls |-> 0] : kind \in {"Sarc", "Bffnt"}}
    /\ hs = Idle /\ sv = Idle /\ rd = Idle /\ env = Idle /\ enc = Idle /\ dec = Idle /\ px = Idle /\ tx = Idle

\* Sarc(filename, extract=..., list=...) (49-71), Bffnt(...) (139-142)
InstanceNew ==
    /\ tool = "library"
    /\ \E i \in Instances, mode \in {"create", "read"} :
          /\ ~lib.made[i]
          /\ lib' = [lib EXCEPT !.made[i] = TRUE, !.mode[i] = mode]
    /\ UNCHANGED <<tool, hs, sv, rd, env, enc, dec, px, tx>>

\* Sarc.add(path) for a plain file (73-80)
InstanceSarcAdd ==
    /\ tool = "library" /\ lib.kind = "Sarc" /\ lib.calls < MaxCalls
    /\ \E i \in Instances, p \in NamedPaths :
          /\ lib.made[i] /\ lib.mode[i] = "create"
          /\ lib' = [Mutated(i, "files",
                             SortFiles(Attr(i, "files") \o <<p>>, SFAT_HASH_MULTIPLIER))
                        EXCEPT !.given[i].files =
                                   SortFiles(@ \o <<p>>, SFAT_HASH_MULTIPLIER),
                               !.calls = @ + 1]
    /\ UNCHANGED <<tool, hs, sv, rd, env, enc, dec, px, tx>>

\* Sarc.read() of a sound archive (201-338), list = True
InstanceSarcRead ==
    /\ tool = "library" /\ lib.kind = "Sarc" /\ lib.calls < MaxCalls
    /\ \E i \in Instances, arc \in InstanceArchives :
          /\ lib.made[i] /\ lib.mode[i] = "read"
          /\ lib' = [Mutated(i, "file_nodes", ReadNodes(arc, Attr(i, "file_nodes")))
                        EXCEPT !.given[i].file_nodes = ReadNodes(arc, @),
                               !.calls = @ + 1]
    /\ UNCHANGED <<tool, hs, sv, rd, env, enc, dec, px, tx>>

\* Bffnt.read(filename) of a sound font (144-189)
InstanceBffntRead ==
    /\ tool = "library" /\ lib.kind = "Bffnt" /\ lib.calls < MaxCalls
    /\ \E i \in Instances, file \in InstanceFonts :
          /\ lib.made[i]
          /\ LET cwdh == ReadCwdhSections(file, Attr(i, "cwdh_sections"))
                 cmap == ReadCmapSections(file, Attr(i, "cmap_sections"))
             IN  lib' = IF lib.own[i].assigned
                           THEN [lib EXCEPT !.own[i].cwdh_sections = cwdh,
                                            !.own[i].cmap_sections = cmap,
                                            !.given[i].cwdh_sections = ReadCwdhSections(file, @),
                                            !.given[i].cmap_sections = ReadCmapSections(file, @),
                                            !.calls = @ + 1]
                        ELSE [lib EXCEPT !.class.cwdh_sections = cwdh,
                                         !.class.cmap_sections = cmap,
                                         !.given[i].cwdh_sections = ReadCwdhSections(file, @),
                                         !.given[i].cmap_sections = ReadCmapSections(file, @),
                                         !.calls = @ + 1]
    /\ UNCHANGED <<tool, hs, sv, rd, env, enc, dec, px, tx>>

\* Bffnt.load(json_filename) (191-268): lines 248 and 268 assign new lists to the
\* instance
InstanceBffntLoad ==
    /\ tool = "library" /\ lib.kind = "Bffnt" /\ lib.calls < MaxCalls
    /\ \E i \in Instances, glyphs \in 1..MaxGlyphs, entries \in 1..MaxGlyphs :
          /\ lib.made[i]
          /\ lib' = [lib EXCEPT !.own[i] = [assigned |-> TRUE,
                                            cwdh_sections |-> <<LoadedCwdh(glyphs)>>,
                                            cmap_sections |-> <<LoadedCmap(entries)>>],
                                !.given[i] = [cwdh_sections |-> <<LoadedCwdh(glyphs)>>,
                                              cmap_sections |-> <<LoadedCmap(entries)>>],
                                !.calls = @ + 1]
    /\ UNCHANGED <<tool, hs, sv, rd, env, enc, dec, px, tx>>

NextInstances ==
    \/ InstanceNew
    \/ InstanceSarcAdd
    \/ InstanceSarcRead
    \/ InstanceBffntRead
    \/ InstanceBffntLoad

SpecInstances == InitInstances /\ [][NextInstances]_vars

----------------------------------------------------------------------------
(* Bffnt pixel conversions: _get_pixel_data (893-975), _get_tglp_pixel_data (977-1058) *)

\* lines 37-45
FORMAT_RGBA8 == 0
FORMAT_RGB8 == 1

FORMAT_RGBA5551 == 2

FORMAT_RGB565 == 3

FORMAT_RGBA4 == 4
FORMAT_LA8 == 5
FORMAT_L8 == 7
FORMAT_A8 == 8

FORMAT_L4 == 10

FORMAT_A4 == 11

\* PIXEL_FORMAT_SIZE[format] / 8 (lines 70-85): the bytes of one pixel
PixelBytes(format) ==
    IF format = FORMAT_RGBA8 THEN 4
    ELSE IF format = FORMAT_RGB8 THEN 3
    ELSE IF format \in {FORMAT_RGBA5551, FORMAT_RGB565, FORMAT_RGBA4, FORMAT_LA8} THEN 2
    ELSE 1

\* A float between 0 and 256 is written as the four base-65536 digits, most
\* significant first, of its value times 2^56: every double in that range with an
\* exponent of -4 or more is such a number.
Digit == 65536

\* the literals 0.2126, 0.7152 and 0.0722 (lines 1022, 1032) as doubles:
\* 0x1.b367a0f9096bcp-3, 0x1.6e2eb1c432ca5p-1, 0x1.27bb2fec56d5dp-4
LumaRed == <<54, 27892, 7969, 11640>>
LumaGreen == <<183, 5976, 57881, 25896>>
LumaBlue == <<18, 31666, 65221, 27997>>

\* carries propagated from the least significant digit up
Norm(d3, d2, d1, d0) ==
    LET c1 == d1 + (d0 \div Digit)
        c2 == d2 + (c1 \div Digit)
        c3 == d3 + (c2 \div Digit)
    IN  <<c3, c2 % Digit, c1 % Digit, d0 % Digit>>

RECURSIVE BitLength(_)
BitLength(n) == IF n = 0 THEN 0 ELSE 1 + BitLength(n \div 2)

\* the position of the leading one bit
FloatBits(x) ==
    IF x[1] > 0 THEN 48 + BitLength(x[1])
    ELSE IF x[2] > 0 THEN 32 + BitLength(x[2])
    ELSE IF x[3] > 0 THEN 16 + BitLength(x[3])
    ELSE BitLength(x[4])

RECURSIVE Pow2(_)
Pow2(n) == IF n = 0 THEN 1 ELSE 2 * Pow2(n - 1)

\* the nearest double, ties to even: 53 significant bits are kept
RoundDouble(x) ==
    LET drop == FloatBits(x) - 53
        unit == Pow2(drop)
        rest == x[4] % unit
        odd == (x[4] \div unit) % 2 = 1
        up == 2 * rest > unit \/ (2 * rest = unit /\ odd)
    IN  IF drop <= 0 THEN x
        ELSE Norm(x[1], x[2], x[3], x[4] - rest + (IF up THEN unit ELSE 0))

\* channel * literal and a + b in double arithmetic
FloatTimes(channel, x) ==
    RoundDouble(Norm(x[1] * channel, x[2] * channel, x[3] * channel, x[4] * channel))

FloatPlus(x, y) == RoundDouble(Norm(x[1] + y[1], x[2] + y[2], x[3] + y[3], x[4] + y[4]))

\* int(x) for x >= 0
FloatToInt(x) == x[1] \div 256

\* int((red * 0.2126) + (green * 0.7152) + (blue * 0.0722)), lines 1022 and 1032
Luminance(red, green, blue) ==
    FloatToInt(FloatPlus(FloatPlus(FloatTimes(red, LumaRed), FloatTimes(green, LumaGreen)),
                         FloatTimes(blue, LumaBlue)))

RECURSIVE BitOr(_, _)
\* a | b
BitOr(a, b) ==
    IF a = 0 THEN b
    ELSE IF b = 0 THEN a
    ELSE (IF a % 2 = 1 \/ b % 2 = 1 THEN 1 ELSE 0) + 2 * BitOr(a \div 2, b \div 2)

\* lines 989-997 (bflim.py 655-663): rrrrrggg ggbbbbba
PackRGBA5551(pixel) ==
    LET r5 == (pixel[1] \div 8) % 32
        g5 == (pixel[2] \div 8) % 32
        b5 == (pixel[3] \div 8) % 32
        a == IF pixel[4] > 0 THEN 1 ELSE 0
    IN  <<BitOr(r5 * 8, g5 \div 4), BitOr(BitOr(g5 * 64, b5 * 2), a) % 256>>

\* lines 1000-1007 (bflim.py 666-673): rrrrrggg gggbbbbb
PackRGB565(pixel) ==
    LET r5 == (pixel[1] \div 8) % 32
        g6 == (pixel[2] \div 4) % 64
        b5 == (pixel[3] \div 8) % 32
    IN  <<BitOr(r5 * 8, g6 \div 8), BitOr(g6 * 32, b5) % 256>>

\* lines 1010-1018 (bflim.py 676-684): rrrrgggg bbbbaaaa
PackRGBA4(pixel) ==
    LET r4 == (pixel[1] \div 17) % 16
        g4 == (pixel[2] \div 17) % 16
        b4 == (pixel[3] \div 17) % 16
        a4 == (pixel[4] \div 17) % 16
    IN  <<BitOr(r4 * 16, g4), BitOr(b4 * 16, a4)>>

\* lines 906-912 (bflim.py 575-581)
UnpackRGBA5551(b1, b2) ==
    <<(b1 \div 8) % 32, BitOr(b1 % 8, (b2 \div 64) % 4), (b2 \div 2) % 32, (b2 % 2) * 255>>

\* lines 915-921 (bflim.py 584-590)
UnpackRGB565(b1, b2) ==
    <<(b1 \div 8) % 32, BitOr(b1 % 8, (b2 \div 32) % 8), b2 % 32, 255>>

\* _get_tglp_pixel_data (977-1058) for the pixel <<red, green, blue, alpha>>: the bytes
\* of the pixel in the format
GetTglpPixelData(pixel, format) ==
    IF format = FORMAT_RGBA8 THEN pixel
    ELSE IF format = FORMAT_RGB8 THEN <<pixel[1], pixel[2], pixel[3]>>
    ELSE IF format = FORMAT_RGBA5551 THEN PackRGBA5551(pixel)
    ELSE IF format = FORMAT_RGB565 THEN PackRGB565(pixel)
    ELSE IF format = FORMAT_RGBA4 THEN PackRGBA4(pixel)
    ELSE IF format = FORMAT_LA8
       THEN <<Luminance(pixel[1], pixel[2], pixel[3]), pixel[4]>>
    ELSE IF format = FORMAT_L8 THEN <<Luminance(pixel[1], pixel[2], pixel[3])>>
    ELSE <<pixel[4]>>

\* _get_pixel_data (893-975) on the bytes of one pixel
GetPixelData(bytes, format) ==
    IF format = FORMAT_RGBA8 THEN bytes
    ELSE IF format = FORMAT_RGB8 THEN <<bytes[1], bytes[2], bytes[3], 255>>
    ELSE IF format = FORMAT_RGBA5551 THEN UnpackRGBA5551(bytes[1], bytes[2])
    ELSE IF format = FORMAT_RGB565 THEN UnpackRGB565(bytes[1], bytes[2])
    ELSE IF format = FORMAT_RGBA4
       \* lines 927-930: alpha from the low half of b1, green from the low half of b2
       THEN <<(bytes[1] \div 16) * 17, (bytes[2] % 16) * 17,
              (bytes[2] \div 16) * 17, (bytes[1] % 16) * 17>>
    ELSE IF format = FORMAT_LA8 THEN <<bytes[1], bytes[1], bytes[1], bytes[2]>>
    ELSE IF format = FORMAT_L8 THEN <<bytes[1], bytes[1], bytes[1], 255>>
    ELSE <<255, 255, 255, bytes[1]>>

\* Bflim._get_pixel_data (643-724): the branches are those of Bffnt's
\* _get_tglp_pixel_data, with / on integers for //
BflimGetPixelData(pixel, format) == GetTglpPixelData(pixel, format)

\* Bflim._get_bmp_pixel_data (558-641) on the bytes of one pixel: RGBA8 is unpacked
\* as one integer in self.order (lines 563-567), RGBA4 takes red and green from b1,
\* blue and alpha from b2 (lines 596-599), the other branches are those of Bffnt's
\* _get_pixel_data
BflimGetBmpPixelData(bytes, format, order) ==
    IF format = FORMAT_RGBA8
    THEN IF order = ">" THEN bytes ELSE <<bytes[4], bytes[3], bytes[2], bytes[1]>>
    ELSE IF format = FORMAT_RGBA4
    THEN <<(bytes[1] \div 16) * 17, (bytes[1] % 16) * 17,
           (bytes[2] \div 16) * 17, (bytes[2] % 16) * 17>>
    ELSE GetPixelData(bytes, format)

\* _get_tglp_pixel_data for L4 (lines 1049-1052) and A4 (1055-1058): the one element
\* of the list returned, shifted by (index & 1) * 4
PackNibble(pixel, format, index) ==
    LET shifted == IF index % 2 = 1 THEN 16 ELSE 1
    IN  IF format = FORMAT_L4 THEN <<Luminance(pixel[1], pixel[2], pixel[3]) * shifted>>
        ELSE <<((pixel[4] \div 17) % 16) * shifted>>

\* _get_pixel_data for L4 (lines 959-963) and A4 (966-973) on the byte data[index // 2]
UnpackNibble(byte, format, index) ==
    LET nibble == (IF index % 2 = 1 THEN byte \div 16 ELSE byte) % 16
    IN  IF format = FORMAT_L4 THEN <<nibble * 17, nibble * 17, nibble * 17, 255>>
        ELSE <<255, 255, 255, nibble * 17>>

\* the channel values of the pixels converted
Channels == {0, 5, 128, 255}

\* one pixel and one format, for the functions of Bffnt and for those of Bflim,
\* whose self.order is set from the file or from the -b switch
InitPixel ==
    /\ tool = "pixel"
    /\ px \in {[pc |-> "new", codec |-> "bffnt", order |-> "<", format |-> format,
                pixel |-> <<r, g, b, a>>, bytes |-> <<>>, out |-> <<>>] :
                    format \in {FORMAT_RGBA8, FORMAT_RGB8, FORMAT_RGBA5551, FORMAT_RGB565,
                                FORMAT_RGBA4, FORMAT_LA8, FORMAT_L8, FORMAT_A8},
                    r \in Channels, g \in Channels, b \in Channels, a \in Channels}
          \cup {[pc |-> "new", codec |-> "bflim", order |-> order, format |-> format,
                  pixel |-> <<r, g, b, a>>, bytes |-> <<>>, out |-> <<>>] :
                    order \in {"<", ">"},
                    format \in {FORMAT_RGBA8, FORMAT_RGBA5551, FORMAT_RGB565, FORMAT_RGBA4},
                    r \in Channels, g \in Channels, b \in Channels, a \in Channels}
    /\ hs = Idle /\ sv = Idle /\ rd = Idle /\ env = Idle /\ enc = Idle /\ dec = Idle
    /\ lib = Idle /\ tx = Idle

\* _get_tglp_pixel_data(bmp, format_, index) of Bffnt, _get_pixel_data(bmp, format_,
\* index) of Bflim, on the pixel
PixelPack ==
    /\ tool = "pixel" /\ px.pc = "new"
    /\ px' = [px EXCEPT !.pc = "packed",
                        !.bytes = IF px.codec = "bffnt" THEN GetTglpPixelData(px.pixel, px.format)
                                  ELSE BflimGetPixelData(px.pixel, px.format)]
    /\ UNCHANGED <<tool, hs, sv, rd, env, enc, dec, lib, tx>>

\* _get_pixel_data(data, format_, index) of Bffnt, _get_bmp_pixel_data(data, format_,
\* index) of Bflim, on the packed bytes
PixelUnpack ==
    /\ tool = "pixel" /\ px.pc = "packed"
    /\ px' = [px EXCEPT !.pc = "unpacked",
                        !.out = IF px.codec = "bffnt" THEN GetPixelData(px.bytes, px.format)
                                ELSE BflimGetBmpPixelData(px.bytes, px.format, px.order)]
    /\ UNCHANGED <<tool, hs, sv, rd, env, enc, dec, lib, tx>>

NextPixel == PixelPack \/ PixelUnpack

SpecPixel == InitPixel /\ [][NextPixel]_vars

----------------------------------------------------------------------------
(* The tile walk: Bffnt._sheet_to_bitmap (822-891), Bflim._data_to_bitmap (483-551) *)

\* the largest width and height of a sheet or image
MaxSide == 16

\* widths and heights of the sheets and images walked
Sides == {side \in {1, 4, 8, 12, 16, 32} : side <= MaxSide}

RECURSIVE PowerOfTwoFrom(_, _)
PowerOfTwoFrom(n, power) == IF power >= n THEN power ELSE PowerOfTwoFrom(n, 2 * power)

\* 1 << int(math.ceil(math.log(n, 2))), lines 831-832
PaddedSide(n) == PowerOfTwoFrom(n, 1)

\* the loop variables of round n of the nest of lines 845-858 (bflim.py 507-520),
\* x3 running fastest
Loop(n, tile_width) ==
    [x3 |-> n % 2, y3 |-> (n \div 2) % 2, x2 |-> (n \div 4) % 2, y2 |-> (n \div 8) % 2,
     x |-> (n \div 16) % 2, y |-> (n \div 32) % 2,
     tile_x |-> (n \div 64) % tile_width, tile_y |-> (n \div 64) \div tile_width]

\* lines 866-867 (bflim.py 521-522)
PixelX(v) == v.x3 + (v.x2 * 2) + (v.x * 4) + (v.tile_x * 8)

PixelY(v) == v.y3 + (v.y2 * 2) + (v.y * 4) + (v.tile_y * 8)

\* lines 869-870 (bflim.py 531-532)
DataX(v) == v.x3 + (v.x2 * 4) + (v.x * 16) + (v.tile_x * 64)

\* a mutant: the rows of a pixel group not spread apart
DataYFlat(v, width) == v.y3 + (v.y2 * 8) + (v.y * 32) + (v.tile_y * width * 8)

DataY(v, width) == (v.y3 * 2) + (v.y2 * 8) + (v.y * 32) + (v.tile_y * width * 8)

\* line 872 (bflim.py 534)
DataPos(v, width) == DataX(v) + DataY(v, width)

\* line 873 (bflim.py 535)
BmpPos(v, width) == PixelX(v) + (PixelY(v) * width)

\* the tests before `continue': lines 860-864 of bffnt.py add up the loop variables,
\* lines 525-529 of bflim.py compare the pixel coordinates
Skipped(codec, v, data_width, data_height) ==
    IF codec = "bffnt"
    THEN \/ v.tile_y + v.y + v.y2 + v.y3 >= data_height
         \/ v.tile_x + v.x + v.x2 + v.x3 >= data_width
    ELSE PixelY(v) >= data_height \/ PixelX(v) >= data_width

\* data[at:at + len(bytes)] = bytes on a list (line 880): the slice is cut off at the
\* end of the list, and what is assigned takes its place
SliceAssign(data, at, bytes) ==
    SubSeq(data, 1, at) \o bytes \o SubSeq(data, at + Len(bytes) + 1, Len(data))

\* the pixel at position q of the bitmap a sheet is packed from: every pixel is one
\* the format stores without loss, and no two pixels of a sheet are equal; in the
\* 4-bit formats every channel is a multiple of 0x11 and neighbours differ
SourcePixel(format, q) ==
    IF format \in {FORMAT_L4, FORMAT_A4}
    THEN <<17 * ((q + 1) % 16), 17 * ((q + 1) % 16), 17 * ((q + 1) % 16), 17 * ((q + 1) % 16)>>
    ELSE IF format = FORMAT_LA8 THEN <<0, 0, 0, q % 256>>
    ELSE IF format = FORMAT_L8 THEN <<0, 0, 0, 255>>
    ELSE <<q % 256, q \div 256, 0, 255>>

\* the bytes of a stored RGBA8 sheet of n pixels, no two of them equal
StoredSheet(n) == [i \in 1..(4 * n) |-> SourcePixel(FORMAT_RGBA8, (i - 1) \div 4)[((i - 1) % 4) + 1]]

\* the bytes of a stored 4-bit sheet of 2 * n pixels: position q holds the nibble q % 16
StoredNibbles(n) == [i \in 1..n |-> ((2 * (i - 1)) % 16) + 16 * ((2 * (i - 1) + 1) % 16)]

\* the sides that _sheet_to_bitmap leaves as they are
WholeSides == {side \in Sides : side >= 8 /\ PaddedSide(side) = side}

\* The call _sheet_to_bitmap(bmp, to_tglp=True) of save() (line 431) on a sheet of
\* data_width x data_height pixels, the call _sheet_to_bitmap(sheet) of
\* _parse_tglp_data (line 679) on the bytes of a stored sheet, which are as many as
\* the declared or as the padded size takes, and the call _data_to_bitmap(bmp_data)
\* of Bflim.read (line 165), where exact is True and the size is not padded.
\* `placed' collects the pairs <<bmp_pos, data_pos>> and `pixels' the triples
\* <<pixel_x, pixel_y, bmp_pos>> of the rounds that were not skipped; the pixels of
\* a Bflim image are left out.  Sheets in the 4-bit formats have sides that need no
\* padding and hold width * height / 2 bytes (lines 391, 425); `python' is the major
\* version of the interpreter running bffnt.py.
InitSheet ==
    /\ tool = "sheet"
    /\ px \in {[pc |-> "walk", codec |-> "bffnt", to_tglp |-> TRUE, format |-> format,
                 data_width |-> w, data_height |-> h,
                 width |-> PaddedSide(w), height |-> PaddedSide(h), n |-> 0,
                 data |-> [i \in 1..(w * h * PixelBytes(format)) |-> 0],
                 bmp |-> [q \in 1..(w * h) |-> SourcePixel(format, q - 1)],
                 source |-> [q \in 1..(w * h) |-> SourcePixel(format, q - 1)],
                 placed |-> {}, pixels |-> {}, python |-> 3] :
                    format \in {FORMAT_RGBA8, FORMAT_RGB8, FORMAT_LA8, FORMAT_L8},
                    w \in Sides, h \in Sides}
          \cup {[pc |-> "walk", codec |-> "bffnt", to_tglp |-> FALSE, format |-> FORMAT_RGBA8,
                  data_width |-> w, data_height |-> h,
                  width |-> PaddedSide(w), height |-> PaddedSide(h), n |-> 0,
                  data |-> StoredSheet(IF padded THEN PaddedSide(w) * PaddedSide(h) ELSE w * h),
                  bmp |-> [q \in 1..(PaddedSide(w) * PaddedSide(h)) |-> <<0, 0, 0, 0>>],
                  source |-> <<>>, placed |-> {}, pixels |-> {}, python |-> 3] :
                    w \in Sides, h \in Sides, padded \in BOOLEAN}
          \cup {[pc |-> "walk", codec |-> "bffnt", to_tglp |-> TRUE, format |-> format,
                  data_width |-> w, data_height |-> h, width |-> w, height |-> h, n |-> 0,
                  data |-> [i \in 1..((w * h) \div 2) |-> 0],
                  bmp |-> [q \in 1..(w * h) |-> SourcePixel(format, q - 1)],
                  source |-> [q \in 1..(w * h) |-> SourcePixel(format, q - 1)],
                  placed |-> {}, pixels |-> {}, python |-> 3] :
                    format \in {FORMAT_L4, FORMAT_A4}, w \in WholeSides, h \in WholeSides}
          \cup {[pc |-> "walk", codec |-> "bffnt", to_tglp |-> FALSE, format |-> format,
                  data_width |-> w, data_height |-> h, width |-> w, height |-> h, n |-> 0,
                  data |-> StoredNibbles((w * h) \div 2),
                  bmp |-> [q \in 1..(w * h) |-> <<0, 0, 0, 0>>],
                  source |-> <<>>, placed |-> {}, pixels |-> {}, python |-> python] :
                    format \in {FORMAT_L4, FORMAT_A4}, python \in {2, 3},
                    w \in WholeSides, h \in WholeSides}
          \cup {[pc |-> "walk", codec |-> "bflim", to_tglp |-> FALSE,
                  format |-> FORMAT_RGBA8, data_width |-> w, data_height |-> h,
                  width |-> w, height |-> h, n |-> 0, data |-> <<>>, bmp |-> <<>>,
                  source |-> <<>>, placed |-> {}, pixels |-> {}, python |-> 3] : w \in Sides, h \in Sides}
    /\ hs = Idle /\ sv = Idle /\ rd = Idle /\ env = Idle /\ enc = Idle /\ dec = Idle
    /\ lib = Idle /\ tx = Idle

\* range(tile_height) x range(tile_width) x 64 rounds (lines 841-858)
Rounds(width, height) == (width \div 8) * (height \div 8) * 64

\* lines 875-884: the pixel at bmp_pos is packed and stored at data_pos
PackRound(r, bmp_pos, data_pos) ==
    IF bmp_pos >= Len(r.bmp) THEN [r EXCEPT !.pc = "raised"]
    ELSE LET bytes == IF r.format \in {FORMAT_L4, FORMAT_A4}
                      THEN PackNibble(r.bmp[bmp_pos + 1], r.format, bmp_pos)
                      ELSE GetTglpPixelData(r.bmp[bmp_pos + 1], r.format)
             \* lines 882-883
             at == IF r.format \in {FORMAT_L4, FORMAT_A4} THEN data_pos \div 2 ELSE data_pos
         IN  IF Len(bytes) > 1
             THEN [r EXCEPT !.data = SliceAssign(r.data, data_pos, bytes)]
             ELSE IF at >= Len(r.data) THEN [r EXCEPT !.pc = "raised"]
             ELSE [r EXCEPT !.data[at + 1] = BitOr(@, bytes[1])]

\* line 886: the pixel read at index data_pos becomes the pixel at bmp_pos; struct
\* raises when the bytes of the pixel are not all there
DecodeRound(r, bmp_pos, data_pos) ==
    LET k == PixelBytes(r.format)
    IN  IF r.format \in {FORMAT_L4, FORMAT_A4}
        THEN IF data_pos \div 2 >= Len(r.data) THEN [r EXCEPT !.pc = "raised"]
             \* line 960: struct.unpack('B', data[index // 2]) is given an int by Python 3
             ELSE IF r.format = FORMAT_L4 /\ r.python = 3 THEN [r EXCEPT !.pc = "raised"]
             ELSE [r EXCEPT !.bmp[bmp_pos + 1] =
                               UnpackNibble(r.data[(data_pos \div 2) + 1], r.format, data_pos)]
        ELSE
        IF data_pos * k + k > Len(r.data) THEN [r EXCEPT !.pc = "raised"]
        ELSE [r EXCEPT !.bmp[bmp_pos + 1] =
                          GetPixelData(SubSeq(r.data, data_pos * k + 1, data_pos * k + k),
                                       r.format)]

\* one round of the innermost loop
SheetRound ==
    /\ tool = "sheet" /\ px.pc = "walk" /\ px.n < Rounds(px.width, px.height)
    /\ LET v == Loop(px.n, px.width \div 8)
           data_pos == DataPos(v, px.width)
           bmp_pos == BmpPos(v, px.width)
           next == [px EXCEPT !.n = @ + 1]
           kept == [next EXCEPT !.placed = @ \cup {<<bmp_pos, data_pos>>},
                                !.pixels = @ \cup {<<PixelX(v), PixelY(v), bmp_pos>>}]
       IN  px' = IF Skipped(px.codec, v, px.data_width, px.data_height) THEN next
                 ELSE IF px.codec = "bflim" THEN kept
                 ELSE IF px.to_tglp THEN PackRound(kept, bmp_pos, data_pos)
                 ELSE DecodeRound(kept, bmp_pos, data_pos)
    /\ UNCHANGED <<tool, hs, sv, rd, env, enc, dec, lib, tx>>

\* lines 888-891: the bytes or the bitmap are returned; struct.pack('%dB') raises on
\* an element that is no byte
SheetReturn ==
    /\ tool = "sheet" /\ px.pc = "walk" /\ px.n = Rounds(px.width, px.height)
    /\ px' = [px EXCEPT !.pc = IF ~px.to_tglp THEN "decoded"
                               ELSE IF \E i \in 1..Len(px.data) : px.data[i] > 255 THEN "raised"
                               ELSE "packed"]
    /\ UNCHANGED <<tool, hs, sv, rd, env, enc, dec, lib, tx>>

\* the call _sheet_to_bitmap(sheet) of _parse_tglp_data (line 679) on the bytes save()
\* wrote for the sheet: the bitmap starts as width * height pixels [0, 0, 0, 0]
\* (line 839)
SheetDecode ==
    /\ tool = "sheet" /\ px.pc = "packed"
    /\ px' = [px EXCEPT !.pc = "walk", !.to_tglp = FALSE, !.n = 0, !.placed = {},
                        !.pixels = {},
                        !.bmp = [q \in 1..(px.width * px.height) |-> <<0, 0, 0, 0>>]]
    /\ UNCHANGED <<tool, hs, sv, rd, env, enc, dec, lib, tx>>

NextSheet == SheetRound \/ SheetReturn \/ SheetDecode

SpecSheet == InitSheet /\ [][NextSheet]_vars

----------------------------------------------------------------------------
(* Msbt TXT2 strings: _serialize_txt2 (476-525), _parse_txt2_data (376-416) *)

\* a string is a sequence of UTF-16 code units; the strings of the model
\* are made of at most MaxPieces pieces
MaxPieces == 3

\* COLOR_ESCAPE (line 25): the bytes of U+0003 U+0004 in little-endian order
COLOR_ESCAPE == <<3, 0, 4, 0>>

\* the code units of "[#ff8800ff]" and of "[#00FF0001]"
TagOrange == <<91, 35, 102, 102, 56, 56, 48, 48, 102, 102, 93>>
TagUpper == <<91, 35, 48, 48, 70, 70, 48, 48, 48, 49, 93>>

\* the code units of "hello" and "world"
Hello == <<104, 101, 108, 108, 111>>
World == <<119, 111, 114, 108, 100>>

Pieces == {<<104>>, <<3, 4>>, TagOrange, TagUpper}

RECURSIVE StringsOf(_)
StringsOf(n) ==
    IF n = 0 THEN {<<>>}
    ELSE StringsOf(n - 1) \cup {s \o p : s \in StringsOf(n - 1), p \in Pieces}

Strings == StringsOf(MaxPieces) \cup {Hello \o TagOrange \o World}

\* [a-fA-F0-9] of the pattern (line 508) and int(color, 16) (line 513)
IsHexChar(c) == c \in 48..57 \/ c \in 65..70 \/ c \in 97..102

HexOfChar(c) == IF c \in 48..57 THEN c - 48 ELSE IF c \in 65..70 THEN c - 55 ELSE c - 87

\* a digit of '%08x' (line 405): lower case
HexChar(n) == IF n < 10 THEN 48 + n ELSE 87 + n

\* the pattern \[#[a-fA-F0-9]{8}\] matches at position i of the haystack (line 508)
IsTag(s, i) ==
    /\ i >= 1 /\ i + 10 <= Len(s)
    /\ s[i] = 91 /\ s[i + 1] = 35 /\ s[i + 10] = 93
    /\ \A k \in 2..9 : IsHexChar(s[i + k])

\* re.search with the greedy (?P<pre>.*): the match is the one with the longest
\* pre, the last tag of the haystack (line 508); 0 when nothing matches
LastTag(s) ==
    IF \E i \in 1..Len(s) : IsTag(s, i)
    THEN CHOOSE i \in 1..Len(s) : IsTag(s, i) /\ \A j \in 1..Len(s) : IsTag(s, j) => j <= i
    ELSE 0

\* int(color, 16) (line 513) as the four bytes of the value, most significant first
ColorValue(s, i) == [j \in 1..4 |-> 16 * HexOfChar(s[i + 2 * j]) + HexOfChar(s[i + 2 * j + 1])]

\* struct.pack('%sI' % self.order, colorValue) (line 516)
PackColor(order, value) ==
    IF order = "<" THEN <<value[4], value[3], value[2], value[1]>> ELSE value

\* struct.unpack('%sI' % self.order, ...) (line 403) of four bytes, as the four
\* bytes of the value, most significant first
UnpackColor(order, bytes) ==
    IF order = "<" THEN <<bytes[4], bytes[3], bytes[2], bytes[1]>> ELSE bytes

\* '[#%08x]' % color (line 405)
ColorText(value) ==
    <<91, 35>> \o
    <<HexChar(value[1] \div 16), HexChar(value[1] % 16), HexChar(value[2] \div 16), HexChar(value[2] % 16),
      HexChar(value[3] \div 16), HexChar(value[3] % 16), HexChar(value[4] \div 16), HexChar(value[4] % 16)>>
    \o <<93>>

\* unicode.encode('utf-16-le' / 'utf-16-be') (lines 405, 500, 515, 519)
RECURSIVE EncodeUtf16(_, _)
EncodeUtf16(order, s) ==
    IF s = <<>> THEN <<>>
    ELSE (IF order = "<" THEN <<Head(s) % 256, Head(s) \div 256>> ELSE <<Head(s) \div 256, Head(s) % 256>>)
         \o EncodeUtf16(order, Tail(s))

\* the two-byte units of str.decode('utf-16', 'replace') (line 412): a byte left
\* over at the end is replaced by U+FFFD
RECURSIVE Utf16Units(_, _)
Utf16Units(order, bytes) ==
    IF bytes = <<>> THEN <<>>
    ELSE IF Len(bytes) = 1 THEN <<65533>>
    ELSE <<(IF order = "<" THEN bytes[1] + 256 * bytes[2] ELSE 256 * bytes[1] + bytes[2])>>
         \o Utf16Units(order, SubSeq(bytes, 3, Len(bytes)))

\* str.decode('utf-16', 'replace') (line 412): a byte-order mark in front is taken
\* off and decides the order; without one the order is that of the machine
DecodeUtf16(host, bytes) ==
    IF Len(bytes) >= 2 /\ SubSeq(bytes, 1, 2) = <<255, 254>> THEN Utf16Units("<", SubSeq(bytes, 3, Len(bytes)))
    ELSE IF Len(bytes) >= 2 /\ SubSeq(bytes, 1, 2) = <<254, 255>> THEN Utf16Units(">", SubSeq(bytes, 3, Len(bytes)))
    ELSE Utf16Units(host, bytes)

\* the while loop of lines 507-519 on one haystack
RECURSIVE SerializeColors(_, _)
SerializeColors(order, haystack) ==
    LET i == LastTag(haystack) IN
    IF i = 0 THEN EncodeUtf16(order, haystack)
    ELSE EncodeUtf16(order, SubSeq(haystack, 1, i - 1))
         \o PackColor(order, ColorValue(haystack, i))
         \o SerializeColors(order, SubSeq(haystack, i + 11, Len(haystack)))

\* the bytes of one string and its terminator (lines 500-522)
SerializeString(order, colors, string) ==
    (IF colors THEN SerializeColors(order, string) ELSE EncodeUtf16(order, string)) \o <<0, 0>>

\* section 2 of one string list (lines 499-522)
RECURSIVE SerializeTxt2(_, _, _)
SerializeTxt2(order, colors, string_list) ==
    IF string_list = <<>> THEN <<>>
    ELSE SerializeString(order, colors, Head(string_list)) \o SerializeTxt2(order, colors, Tail(string_list))

\* string_data[a:b] of Python: the bytes from offset a up to offset b, cut at the end
Slice(data, a, b) == SubSeq(data, a + 1, IF b > Len(data) THEN Len(data) ELSE b)

\* the while loop of lines 400-414 on the data of one entry; "raised" is the
\* struct.error of line 403 on fewer than four bytes
RECURSIVE ParseTxt2Data(_, _, _, _, _, _, _)
ParseTxt2Data(order, colors, host, string_data, position, string, substrings) ==
    IF position >= Len(string_data) THEN [raised |-> FALSE, substrings |-> substrings]
    ELSE IF colors /\ Len(string) >= 4 /\ SubSeq(string, Len(string) - 3, Len(string)) = COLOR_ESCAPE
    THEN LET bytes == Slice(string_data, position, position + 4) IN
         IF Len(bytes) < 4 THEN [raised |-> TRUE, substrings |-> substrings]
         ELSE ParseTxt2Data(order, colors, host, string_data, position + 4,
                            string \o EncodeUtf16(order, ColorText(UnpackColor(order, bytes))), substrings)
    ELSE LET utf16char == Slice(string_data, position, position + 2) IN
         IF utf16char # <<0, 0>>
         THEN ParseTxt2Data(order, colors, host, string_data, position + 2, string \o utf16char, substrings)
         ELSE ParseTxt2Data(order, colors, host, string_data, position + 2, <<>>,
                            Append(substrings, DecodeUtf16(host, string)))

\* one Msbt with one TXT2 entry: the string list given, the order of the
\* container, the -c switch, and the byte order of the machine
InitTxt2 ==
    /\ tool = "msbt"
    /\ tx \in [pc : {"loaded"}, order : {"<", ">"}, colors : BOOLEAN, host : HostOrders,
               strings : {<<s>> : s \in Strings}, data : {<<>>}, raised : {FALSE}, parsed : {<<>>}]
    /\ hs = Idle /\ sv = Idle /\ rd = Idle /\ env = Idle /\ enc = Idle /\ dec = Idle
    /\ lib = Idle /\ px = Idle

\* Msbt._serialize_txt2: section 2 of the entry
MsbtSerializeTxt2 ==
    /\ tool = "msbt" /\ tx.pc = "loaded"
    /\ tx' = [tx EXCEPT !.pc = "serialized", !.data = SerializeTxt2(tx.order, tx.colors, tx.strings)]
    /\ UNCHANGED <<tool, hs, sv, rd, env, enc, dec, lib, px>>

\* Msbt._parse_txt2_data on those bytes
MsbtParseTxt2Data ==
    /\ tool = "msbt" /\ tx.pc = "serialized"
    /\ LET out == ParseTxt2Data(tx.order, tx.colors, tx.host, tx.data, 0, <<>>, <<>>) IN
       tx' = [tx EXCEPT !.pc = "parsed", !.raised = out.raised, !.parsed = out.substrings]
    /\ UNCHANGED <<tool, hs, sv, rd, env, enc, dec, lib, px>>

NextTxt2 == MsbtSerializeTxt2 \/ MsbtParseTxt2Data

SpecTxt2 == InitTxt2 /\ [][NextTxt2]_vars

----------------------------------------------------------------------------
(* ETC1 blocks: _decompress_etc1 and _complement, bffnt.py 687-820 and
   bflim.py 348-481 *)

ETC_INDIV_RED1_OFFSET == 60

ETC_INDIV_GREEN1_OFFSET == 52

ETC_INDIV_BLUE1_OFFSET == 44

ETC_DIFF_RED1_OFFSET == 59

ETC_DIFF_GREEN1_OFFSET == 51

ETC_DIFF_BLUE_OFFSET == 43

ETC_RED2_OFFSET == 56

ETC_GREEN2_OFFSET == 48

ETC_BLUE2_OFFSET == 40

ETC_TABLE1_OFFSET == 37

ETC_TABLE2_OFFSET == 34

ETC_DIFFERENTIAL_BIT == 33

ETC_ORIENTATION_BIT == 32

ETC_MODIFIERS ==
    <<<<2, 8>>, <<5, 17>>, <<9, 29>>, <<13, 42>>, <<18, 60>>, <<24, 80>>, <<33, 106>>,
      <<47, 183>>>>

\* A 64-bit word is kept as four 16-bit limbs, the most significant first.
\* struct.unpack('<Q' or '>Q') of eight bytes
UnpackQ(bytes, order) ==
    LET b == IF order = ">" THEN bytes ELSE [i \in 1..8 |-> bytes[9 - i]]
    IN  [i \in 1..4 |-> b[2 * i - 1] * 256 + b[2 * i]]

\* the eight bytes struct.pack('<Q' or '>Q') makes of a word
PackQ(word, order) ==
    LET b == [i \in 1..8 |-> IF i % 2 = 1 THEN word[(i + 1) \div 2] \div 256
                             ELSE word[i \div 2] % 256]
    IN  IF order = ">" THEN b ELSE [i \in 1..8 |-> b[9 - i]]

\* (word >> k) & 0x01
WordBit(word, k) == (word[4 - (k \div 16)] \div Pow2(k % 16)) % 2

\* (word >> offset) & mask for the mask of `width' one bits
RECURSIVE ShiftMask(_, _, _)
ShiftMask(word, offset, width) ==
    IF width = 0 THEN 0
    ELSE WordBit(word, offset) + 2 * ShiftMask(word, offset + 1, width - 1)

\* _complement (bffnt.py 817-820, bflim.py 478-481)
Complement(input_, bits) ==
    IF input_ \div Pow2(bits - 1) = 0 THEN input_ ELSE input_ - Pow2(bits)

\* (c << 3) | ((c >> 2) & 0x07) on Python's unbounded integers: c << 3 has its low
\* three bits clear, so the OR adds the masked term; >> rounds towards minus infinity
Extend5(c) == c * 8 + ((c \div 4) % 8)

\* lines 738-768: color1 and color2 of a block word
BlockColors(pixels) ==
    IF WordBit(pixels, ETC_DIFFERENTIAL_BIT) = 1
    THEN LET r == ShiftMask(pixels, ETC_DIFF_RED1_OFFSET, 5)
             g == ShiftMask(pixels, ETC_DIFF_GREEN1_OFFSET, 5)
             b == ShiftMask(pixels, ETC_DIFF_BLUE_OFFSET, 5)
             r2 == r + Complement(ShiftMask(pixels, ETC_RED2_OFFSET, 3), 3)
             g2 == g + Complement(ShiftMask(pixels, ETC_GREEN2_OFFSET, 3), 3)
             b2 == b + Complement(ShiftMask(pixels, ETC_BLUE2_OFFSET, 3), 3)
         IN  <<<<Extend5(r), Extend5(g), Extend5(b)>>, <<Extend5(r2), Extend5(g2), Extend5(b2)>>>>
    ELSE <<<<ShiftMask(pixels, ETC_INDIV_RED1_OFFSET, 4) * 17,
             ShiftMask(pixels, ETC_INDIV_GREEN1_OFFSET, 4) * 17,
             ShiftMask(pixels, ETC_INDIV_BLUE1_OFFSET, 4) * 17>>,
           <<ShiftMask(pixels, ETC_RED2_OFFSET, 4) * 17,
             ShiftMask(pixels, ETC_GREEN2_OFFSET, 4) * 17,
             ShiftMask(pixels, ETC_BLUE2_OFFSET, 4) * 17>>>>

\* the pixel of a block when its bits are numbered row by row
BlockPixelTransposed(pixels, alphas, pixel_x, pixel_y) ==
    LET horizontal == WordBit(pixels, ETC_ORIENTATION_BIT) = 1
        table1 == ETC_MODIFIERS[ShiftMask(pixels, ETC_TABLE1_OFFSET, 3) + 1]
        table2 == ETC_MODIFIERS[ShiftMask(pixels, ETC_TABLE2_OFFSET, 3) + 1]
        offset == pixel_y * 4 + pixel_x
        first == IF horizontal THEN pixel_y < 2 ELSE pixel_x < 2
        table == IF first THEN table1 ELSE table2
        color == IF first THEN BlockColors(pixels)[1] ELSE BlockColors(pixels)[2]
        amount == table[WordBit(pixels, offset) + 1]
        signed == IF WordBit(pixels, 16 + offset) = 1 THEN 0 - amount ELSE amount
    IN  <<Max(Min(color[1] + signed, 255), 0), Max(Min(color[2] + signed, 255), 0),
          Max(Min(color[3] + signed, 255), 0), ShiftMask(alphas, offset * 4, 4) * 17>>

\* lines 786-810: the pixel (pixel_x, pixel_y) of a block
BlockPixel(pixels, alphas, pixel_x, pixel_y) ==
    LET horizontal == WordBit(pixels, ETC_ORIENTATION_BIT) = 1
        table1 == ETC_MODIFIERS[ShiftMask(pixels, ETC_TABLE1_OFFSET, 3) + 1]
        table2 == ETC_MODIFIERS[ShiftMask(pixels, ETC_TABLE2_OFFSET, 3) + 1]
        offset == pixel_x * 4 + pixel_y
        first == IF horizontal THEN pixel_y < 2 ELSE pixel_x < 2
        table == IF first THEN table1 ELSE table2
        color == IF first THEN BlockColors(pixels)[1] ELSE BlockColors(pixels)[2]
        amount == table[WordBit(pixels, offset) + 1]
        signed == IF WordBit(pixels, 16 + offset) = 1 THEN 0 - amount ELSE amount
    IN  <<Max(Min(color[1] + signed, 255), 0), Max(Min(color[2] + signed, 255), 0),
          Max(Min(color[3] + signed, 255), 0), ShiftMask(alphas, offset * 4, 4) * 17>>

\* line 718: alphas of a block without an alpha plane
NoAlphas == <<65535, 65535, 65535, 65535>>

\* the block words decoded in whole images: both modes, both orientations, several
\* table pairs, and differences that leave and that stay in the 5-bit range
BlockWords ==
    {<<red_green, blue_and_flags, 42435, 15450>> :
        red_green \in {31 * 256 + 252, 252 * 256 + 31, 128 * 256 + 66},
        blue_and_flags \in {33820 + 2, 33820 + 224 + 3, 33820 + 116, 33820 + 168 + 1}}

\* differential block words with every 5-bit red and every 3-bit difference
SweepWords == {<<red * 256 + 66, 33820 + 2, 42435, 15450>> : red \in 0..255}

\* the alpha planes decoded
AlphaWords == {<<291, 17767, 35243, 52719>>}

\* the sizes of the images: a whole tile, and one whose last columns and rows are cut
EtcSizes == {<<8, 8>>, <<6, 5>>}

\* the tiles of an image (lines 697-702)
EtcTiles(width, height) ==
    PowerOfTwoFrom((width + 7) \div 8, 1) * PowerOfTwoFrom((height + 7) \div 8, 1)

\* the data of an image all of whose blocks are the same
EtcData(word, alphas, with_alpha, order, blocks) ==
    LET one == IF with_alpha THEN PackQ(alphas, order) \o PackQ(word, order)
               ELSE PackQ(word, order)
    IN  [i \in 1..(blocks * Len(one)) |-> one[((i - 1) % Len(one)) + 1]]

\* the state in which _decompress_etc1 starts
EtcCall(codec, order, with_alpha, size, word, alphas) ==
    [pc |-> "blocks", codec |-> codec, order |-> order, with_alpha |-> with_alpha,
     width |-> size[1], height |-> size[2],
     data |-> EtcData(word, alphas, with_alpha, order, 4 * EtcTiles(size[1], size[2])),
     pos |-> 0, n |-> 0, bmp |-> [q \in 1..(size[1] * size[2]) |-> <<0, 0, 0, 0>>],
     block |-> <<>>]

\* _decompress_etc1 is called (bffnt.py line 677, bflim.py line 163) on the data of
\* a one-tile image
InitEtc ==
    /\ tool = "etc1"
    /\ px \in {EtcCall(codec, order, with_alpha, size, word, alphas) :
                  codec \in {"bffnt", "bflim"}, order \in {"<", ">"}, with_alpha \in BOOLEAN,
                  size \in EtcSizes, word \in BlockWords, alphas \in AlphaWords}
          \cup {EtcCall(codec, "<", FALSE, <<4, 4>>, word, NoAlphas) :
                  codec \in {"bffnt", "bflim"}, word \in SweepWords}
    /\ hs = Idle /\ sv = Idle /\ rd = Idle /\ env = Idle /\ enc = Idle /\ dec = Idle
    /\ lib = Idle /\ tx = Idle

\* lines 710-812: one round of the loop over block_y and block_x.  struct.unpack
\* raises when the slice of data is short.
EtcBlock ==
    /\ tool = "etc1" /\ px.pc = "blocks" /\ px.n < 4 * EtcTiles(px.width, px.height)
    /\ LET block_size == IF px.with_alpha THEN 16 ELSE 8
           block_x == px.n % 2
           block_y == (px.n \div 2) % 2
       IN  IF px.pos + block_size > Len(px.data)
           THEN px' = [px EXCEPT !.pc = "raised"]
           ELSE LET block == SubSeq(px.data, px.pos + 1, px.pos + block_size)
                    alphas == IF px.with_alpha THEN UnpackQ(SubSeq(block, 1, 8), px.order)
                              ELSE NoAlphas
                    pixels == UnpackQ(IF px.with_alpha THEN SubSeq(block, 9, 16) ELSE block,
                                      px.order)
                    \* pixel_pos = y * width + x is written in this round (lines 788-796, 810)
                    x(q) == (q - 1) % px.width
                    y(q) == (q - 1) \div px.width
                    inside(q) == x(q) \div 4 = block_x /\ y(q) \div 4 = block_y
                IN  px' = [px EXCEPT
                              !.pos = @ + block_size, !.n = @ + 1,
                              !.block = [pixels |-> pixels, alphas |-> alphas,
                                         color1 |-> BlockColors(pixels)[1],
                                         color2 |-> BlockColors(pixels)[2],
                                         block_x |-> block_x, block_y |-> block_y],
                              !.bmp = [q \in 1..Len(px.bmp) |->
                                          IF inside(q)
                                          THEN BlockPixel(pixels, alphas, x(q) % 4, y(q) % 4)
                                          ELSE px.bmp[q]]]
    /\ UNCHANGED <<tool, hs, sv, rd, env, enc, dec, lib, tx>>

\* line 814: return bmp
EtcReturn ==
    /\ tool = "etc1" /\ px.pc = "blocks" /\ px.n = 4 * EtcTiles(px.width, px.height)
    /\ px' = [px EXCEPT !.pc = "returned"]
    /\ UNCHANGED <<tool, hs, sv, rd, env, enc, dec, lib, tx>>

NextEtc == EtcBlock \/ EtcReturn

SpecEtc == InitEtc /\ [][NextEtc]_vars

----------------------------------------------------------------------------
(* Bffnt section chains: the offsets save() writes (345-524) and read() follows
   (144-187) *)

\* sections of one kind in one font
MaxChain == 2

\* the CWDH sections of an instance: start, end and len(data).  load() makes
\* (0, n - 1, n); _parse_cwdh_data makes (start, end, end - start + 1)
CwdhInputs ==
    {[start |-> 0, end |-> 0, n |-> 1], [start |-> 0, end |-> 1, n |-> 2],
     [start |-> 0, end |-> 2, n |-> 3], [start |-> 2, end |-> 3, n |-> 2]}

\* the CMAP sections of an instance: the type, the number of entries of the table
\* or of the scan map, and whether the dict has the key 'entries', which load() sets
\* and _parse_cmap_data sets for a scan map only (line 1153)
CmapInputs ==
    {[type |-> MAPPING_DIRECT, n |-> 0, entries |-> FALSE],
     [type |-> MAPPING_DIRECT, n |-> 0, entries |-> TRUE],
     [type |-> MAPPING_TABLE, n |-> 2, entries |-> TRUE],
     [type |-> MAPPING_SCAN, n |-> 1, entries |-> TRUE]}

\* the lists of one to MaxChain elements of S
RECURSIVE ListsOf(_, _)
ListsOf(S, n) ==
    IF n = 0 THEN {<<>>}
    ELSE ListsOf(S, n - 1) \cup {Append(l, x) : l \in {m \in ListsOf(S, n - 1) : Len(m) = n - 1},
                                                x \in S}

\* The file being written: `position' of save(), the physical length, the 32-bit
\* fields by their position (as bytes in self.order), the section headers by the
\* position of their magic, and section_count.
\* file_.write of n bytes at position `at'
ChainWrite(st, at, n) == [st EXCEPT !.len = Max(@, at + n)]

\* a 32-bit field written at `at', by a header or by seek(at); write(pack('I', value))
ChainField(st, at, value) ==
    [st EXCEPT !.words = (at :> PackU32(st.order, value)) @@ @, !.len = Max(@, at + 4)]

\* lines 447-471 from section i on; struct raises on a negative end index (line 459),
\* the list of widths on an index past its end (line 464)
RECURSIVE SaveCwdhChain(_, _, _, _)
SaveCwdhChain(sections, i, prev_cwdh_offset_pos, st) ==
    IF i > Len(sections) THEN st
    ELSE LET cwdh == sections[i]
             position == st.position
             linked == IF prev_cwdh_offset_pos > 0
                       THEN ChainField(st, prev_cwdh_offset_pos, position + 8) ELSE st
             header == ChainField(ChainField(
                           [linked EXCEPT !.heads = (position :> [magic |-> "CWDH",
                                                                  start |-> cwdh.start,
                                                                  end |-> cwdh.end - 1]) @@ @,
                                          !.section_count = @ + 1],
                           position + 4, 0), position + 12, 0)
             records == cwdh.end - cwdh.start + 1
             body == [ChainWrite(header, position + CWDH_HEADER_SIZE, 3 * records)
                          EXCEPT !.position = position + CWDH_HEADER_SIZE + 3 * records]
             sized == ChainField(body, position + 4, body.position - position)
         IN  IF cwdh.end - 1 < 0 THEN [linked EXCEPT !.raised = TRUE]
             ELSE IF cwdh.end >= cwdh.n THEN [header EXCEPT !.raised = TRUE]
             ELSE SaveCwdhChain(sections, i + 1, position + 12, sized)

\* lines 480-517 from section i on; len(cmap['entries']) raises KeyError (line 494)
RECURSIVE SaveCmapChain(_, _, _, _)
SaveCmapChain(sections, i, prev_cmap_offset_pos, st) ==
    IF i > Len(sections) THEN st
    ELSE LET cmap == sections[i]
             position == st.position
             linked == IF prev_cmap_offset_pos > 0
                       THEN ChainField(st, prev_cmap_offset_pos, position + 8) ELSE st
             header == ChainField(ChainField(
                           [linked EXCEPT !.heads = (position :> [magic |-> "CMAP",
                                                                  type |-> cmap.type,
                                                                  n |-> cmap.n]) @@ @,
                                          !.section_count = @ + 1],
                           position + 4, 0), position + 16, 0)
             data_len == 2 + (IF cmap.type = MAPPING_DIRECT THEN 2
                              ELSE IF cmap.type = MAPPING_TABLE THEN 2 * cmap.n
                              ELSE 4 * cmap.n)
             body == [ChainWrite(header, position + CMAP_HEADER_SIZE, data_len)
                          EXCEPT !.position = position + CMAP_HEADER_SIZE + data_len]
             sized == ChainField(body, position + 4, body.position - position)
         IN  IF ~cmap.entries THEN [header EXCEPT !.raised = TRUE]
             ELSE SaveCmapChain(sections, i + 1, position + 16, sized)

\* save() (345-524) of an instance whose sheets have the right size
SaveSections(inst) ==
    LET \* the header (358-366) with its two placeholders
        st0 == ChainField(ChainField(
                   [order |-> inst.order, position |-> FFNT_HEADER_SIZE, len |-> FFNT_HEADER_SIZE,
                    words |-> <<>>, heads |-> <<>>, section_count |-> 0, raised |-> FALSE],
                   12, 0), 16, 0)
        finf == FFNT_HEADER_SIZE
        \* FINF with its size and its three offsets (368-386)
        st1 == ChainField(ChainField(ChainField(ChainField(
                   [st0 EXCEPT !.heads = (finf :> [magic |-> "FINF"]) @@ @,
                               !.position = finf + FINF_HEADER_SIZE,
                               !.section_count = @ + 1],
                   finf + 4, FINF_HEADER_SIZE), finf + 20, 0), finf + 24, 0), finf + 28, 0)
        tglp == st1.position
        \* the TGLP offset, the TGLP header, the sheets from TGLP_DATA_OFFSET on (388-435)
        st2 == ChainField(ChainField(
                   [st1 EXCEPT !.heads = (tglp :> [magic |-> "TGLP"]) @@ @,
                               !.section_count = @ + 1],
                   finf + 20, tglp + 8), tglp + 4, 0)
        st3 == [ChainWrite(ChainWrite(st2, tglp, TGLP_HEADER_SIZE), TGLP_DATA_OFFSET,
                           inst.sheetCount * inst.sheet_len)
                    EXCEPT !.position = TGLP_DATA_OFFSET + inst.sheetCount * inst.sheet_len]
        \* the TGLP size and the CWDH offset (437-442)
        st4 == ChainField(ChainField(st3, tglp + 4, st3.position - tglp),
                          finf + 24, st3.position + 8)
        st5 == SaveCwdhChain(inst.cwdh_sections, 1, 0, st4)
        \* the CMAP offset (473-475)
        st6 == ChainField(st5, finf + 28, st5.position + 8)
        st7 == SaveCmapChain(inst.cmap_sections, 1, 0, st6)
        \* the file size and the section count (519-523)
        st8 == ChainField(ChainField(st7, 12, st7.position), 16, st7.section_count)
    IN  IF st5.raised THEN st5 ELSE IF st7.raised THEN st7 ELSE st8

\* an instance holding sections, as load() or read() or the caller left it
InitChain ==
    /\ tool = "bffnt_chain"
    /\ enc \in {[pc |-> "loaded", order |-> order, sheetCount |-> sheetCount, sheet_len |-> 128,
                 cwdh_sections |-> cwdh, cmap_sections |-> cmap, out |-> <<>>] :
                   order \in {"<", ">"}, sheetCount \in {0, 1},
                   cwdh \in ListsOf(CwdhInputs, MaxChain) \ {<<>>},
                   cmap \in ListsOf(CmapInputs, MaxChain) \ {<<>>}}
    /\ dec = Idle
    /\ hs = Idle /\ sv = Idle /\ rd = Idle /\ env = Idle /\ lib = Idle /\ px = Idle /\ tx = Idle

\* save(filename)
BffntSaveChain ==
    /\ tool = "bffnt_chain" /\ enc.pc = "loaded"
    /\ LET out == SaveSections(enc)
       IN  enc' = [enc EXCEPT !.pc = IF out.raised THEN "raised" ELSE "saved", !.out = out]
    /\ UNCHANGED <<tool, hs, sv, rd, env, dec, lib, px, tx>>

\* struct.unpack('I') of the field at `at' in the byte order of the reader
ChainValue(file, order, at) ==
    LET u == UnpackU32(order, file.words[at]) IN u[1] * Half + u[2]

\* the header fields of the file as _parse_header takes them in
ChainHeader(inst) ==
    [bom |-> PackU16(inst.order, BffntBom(inst.order)), magic |-> "FFNT",
     header_size |-> PackU16(inst.order, FFNT_HEADER_SIZE),
     version |-> PackU32(inst.order, ManifestVersion),
     file_size |-> inst.out.words[12], length |-> inst.out.len]

\* the header at `position' of the file has the magic
HeaderAt(file, position, magic) ==
    position \in DOMAIN file.heads /\ file.heads[position].magic = magic

\* read(filename) of a new instance up to the CWDH loop (lines 144-163): the header,
\* FINF with the three offsets, the TGLP header
BffntReadChainHeader ==
    /\ tool = "bffnt_chain" /\ enc.pc = "saved" /\ dec = Idle
    /\ LET parsed == FontParseHeader(ChainHeader(enc))
           order == parsed.order
           file == enc.out
           new == [pc |-> parsed.pc, order |-> order, invalid |-> (parsed.pc = "returned"),
                   how |-> parsed.how, tglp_offset |-> 0, cwdh_offset |-> 0,
                   cmap_offset |-> 0, next |-> 0, cwdh_visited |-> <<>>,
                   cmap_visited |-> <<>>, cwdh_sections |-> <<>>, cmap_sections |-> <<>>]
       IN  dec' = IF parsed.pc # "finf" THEN new
                  ELSE IF ~HeaderAt(file, FFNT_HEADER_SIZE, "FINF")
                          \/ ChainValue(file, order, FFNT_HEADER_SIZE + 4) # FINF_HEADER_SIZE
                     THEN [new EXCEPT !.pc = "returned", !.invalid = TRUE, !.how = "finf"]
                  ELSE LET offsets == [new EXCEPT
                               !.tglp_offset = ChainValue(file, order, FFNT_HEADER_SIZE + 20),
                               !.cwdh_offset = ChainValue(file, order, FFNT_HEADER_SIZE + 24),
                               !.cmap_offset = ChainValue(file, order, FFNT_HEADER_SIZE + 28)]
                       IN  IF ~HeaderAt(file, offsets.tglp_offset - 8, "TGLP")
                           THEN [offsets EXCEPT !.pc = "returned", !.invalid = TRUE,
                                                !.how = "tglp magic"]
                           ELSE [offsets EXCEPT !.pc = "cwdh", !.next = offsets.cwdh_offset]
    /\ UNCHANGED <<tool, hs, sv, rd, env, enc, lib, px, tx>>

\* lines 164-172: the CWDH loop has ended, or one round of it
BffntReadChainCwdh ==
    /\ tool = "bffnt_chain" /\ dec.pc = "cwdh"
    /\ LET file == enc.out
           position == dec.next - 8
       IN  dec' = IF dec.next = 0 THEN [dec EXCEPT !.pc = "cmap", !.next = dec.cmap_offset]
                  ELSE IF ~HeaderAt(file, position, "CWDH")
                     THEN [dec EXCEPT !.pc = "returned", !.invalid = TRUE, !.how = "cwdh magic"]
                  ELSE LET head == file.heads[position]
                           size == ChainValue(file, dec.order, position + 4)
                           info == [size |-> size, start |-> head.start, end |-> head.end]
                           appended == [dec EXCEPT !.cwdh_sections = Append(@, info),
                                                   !.cwdh_visited = Append(@, position)]
                       IN  IF 3 * (head.end - head.start + 1) > size - CWDH_HEADER_SIZE
                           THEN [appended EXCEPT !.pc = "raised", !.how = "struct.error"]
                           ELSE [appended EXCEPT
                                    !.next = ChainValue(file, dec.order, position + 12)]
    /\ UNCHANGED <<tool, hs, sv, rd, env, enc, lib, px, tx>>

\* lines 175-187: one round of the CMAP loop, or its end and _parse_tglp_data; a
\* wrong CMAP magic is only printed (lines 1102-1103)
BffntReadChainCmap ==
    /\ tool = "bffnt_chain" /\ dec.pc = "cmap"
    /\ LET file == enc.out
           position == dec.next - 8
       IN  dec' = IF dec.next = 0 THEN [dec EXCEPT !.pc = "done"]
                  ELSE IF position \notin DOMAIN file.heads
                     THEN [dec EXCEPT !.pc = "raised", !.how = "struct.error"]
                  ELSE LET head == file.heads[position]
                           size == ChainValue(file, dec.order, position + 4)
                           \* the bytes _parse_cmap_data unpacks (1124-1153)
                           need == IF head.type = MAPPING_TABLE THEN 2 * head.n
                                   ELSE IF head.type = MAPPING_SCAN THEN 2 + 4 * head.n
                                   ELSE 2
                           appended == [dec EXCEPT
                                           !.cmap_sections = Append(@, [size |-> size,
                                                                        type |-> head.type]),
                                           !.cmap_visited = Append(@, position)]
                       IN  IF need > size - CMAP_HEADER_SIZE
                           THEN [appended EXCEPT !.pc = "raised", !.how = "struct.error"]
                           ELSE [appended EXCEPT
                                    !.next = ChainValue(file, dec.order, position + 16)]
    /\ UNCHANGED <<tool, hs, sv, rd, env, enc, lib, px, tx>>

NextChain ==
    BffntSaveChain \/ BffntReadChainHeader \/ BffntReadChainCwdh \/ BffntReadChainCmap

SpecChain == InitChain /\ [][NextChain]_vars

----------------------------------------------------------------------------
(* One instance used more than once: Bffnt (129-131, 144-151, 191-194, 528-538),
   Bflim (126-127, 141-151, 241, 275-292), Msbt (29-30, 39-46, 197, 214-231) *)

\* read and load calls on one instance
MaxOps == 2

MSBT_HEADER_LEN == 32

\* An Msbt file: the bytes of the BOM, the magic, the size field and the length
MsbtHeader(host, order, length) ==
    [bom |-> PackU16(host, IF order = ">" THEN 65534 ELSE 65279), magic |-> "MsgStdBn",
     file_size |-> PackU32(host, length), length |-> length]

\* Msbt._parse_header (214-240) of an instance holding the order `held': the header is
\* unpacked in the order of the machine, a wrong size is only printed
MsbtParseHeaderFrom(held, host, file) ==
    LET bom == UnpackU16(host, file.bom)
        order == IF bom = 65534 THEN ">" ELSE IF bom = 65279 THEN "<" ELSE held
    IN  IF file.length < MSBT_HEADER_LEN
        THEN [pc |-> "raised", order |-> held, how |-> "struct.error"]
        ELSE IF file.magic # "MsgStdBn"
             THEN [pc |-> "returned", order |-> held, how |-> "magic"]
        ELSE IF order = "none" THEN [pc |-> "returned", order |-> order, how |-> "bom"]
        ELSE [pc |-> "sections", order |-> order, how |-> "ok"]

\* the header of a container by the class that reads it
ParseHeaderFrom(class, held, host, file) ==
    IF class = "Bffnt" THEN FontParseHeaderFrom(held, file)
    ELSE IF class = "Bflim"
         THEN LET parsed == ImageParseFlimHeaderFrom(held, host, file)
              IN  [pc |-> parsed.pc, order |-> parsed.order, how |-> parsed.how]
    ELSE MsbtParseHeaderFrom(held, host, file)

\* the containers read: sound files of either byte order, and the same files with
\* the two bytes of the BOM cleared
ReusedFiles(class, host) ==
    LET sound == IF class = "Bffnt"
                 THEN {FontHeader(<<255, 254>>, "<", 8237, 8237),
                       FontHeader(<<254, 255>>, ">", 8237, 8237)}
                 ELSE IF class = "Bflim"
                 THEN {ImageHeader(host, FALSE, host, 296, 296),
                       ImageHeader(host, TRUE, host, 296, 296)}
                 ELSE {MsbtHeader(host, "<", 64), MsbtHeader(host, ">", 64)}
    IN  sound \cup {[f EXCEPT !.bom = <<0, 0>>] : f \in sound}
              \cup {[f EXCEPT !.bom = <<254, 254>>] : f \in sound}

\* a new instance: order is None and invalid is False, the values of the class
InitReuse ==
    /\ tool = "reuse"
    /\ dec \in {[pc |-> "new", class |-> class, host |-> host, order |-> "none",
                 invalid |-> FALSE, ops |-> 0, file |-> <<>>, how |-> "new",
                 went_on |-> FALSE] :
                   class \in {"Bffnt", "Bflim", "Msbt"}, host \in HostOrders}
    /\ hs = Idle /\ sv = Idle /\ rd = Idle /\ env = Idle /\ enc = Idle /\ lib = Idle
    /\ px = Idle /\ tx = Idle

\* Bffnt.load (line 194), Bflim.load (line 241), Msbt.from_json (line 197) of a sound
\* input: self.order is what the caller or the manifest asks for
ReuseLoad ==
    /\ tool = "reuse" /\ dec.ops < MaxOps
    /\ \E order \in {"<", ">"} :
          dec' = [dec EXCEPT !.pc = "loaded", !.order = order, !.ops = @ + 1, !.file = <<>>,
                             !.how = "loaded", !.went_on = FALSE]
    /\ UNCHANGED <<tool, hs, sv, rd, env, enc, lib, px, tx>>

\* read(filename) of the instance: the header is parsed with the attributes the
\* instance holds, and read() goes on to the sections unless self.invalid is set;
\* nothing resets invalid
ReuseRead ==
    /\ tool = "reuse" /\ dec.ops < MaxOps
    /\ \E file \in ReusedFiles(dec.class, dec.host) :
          LET parsed == ParseHeaderFrom(dec.class, dec.order, dec.host, file)
              invalid == dec.invalid \/ parsed.pc = "returned"
          IN  dec' = [dec EXCEPT !.pc = IF parsed.pc = "raised" THEN "raised" ELSE "read",
                                 !.order = parsed.order, !.invalid = invalid,
                                 !.ops = @ + 1, !.file = file, !.how = parsed.how,
                                 !.went_on = (parsed.pc \notin {"raised", "returned"}
                                              /\ ~invalid)]
    /\ UNCHANGED <<tool, hs, sv, rd, env, enc, lib, px, tx>>

NextReuse == ReuseLoad \/ ReuseRead

SpecReuse == InitReuse /\ [][NextReuse]_vars

----------------------------------------------------------------------------
(* C1 *)

RECURSIVE Pow32(_, _)
\* m^k mod 2^32
Pow32(m, k) == IF k = 0 THEN <<0, 1>> ELSE MulAdd32(Pow32(m, k - 1), m, 0)

RECURSIVE PolyHash(_, _)
\* sum of name[i] * m^(Len(name) - i) mod 2^32, taken from the last character back
PolyHash(name, m) ==
    IF name = <<>> THEN U32Zero
    ELSE Add32(MulAdd32(Pow32(m, Len(name) - 1), Head(name), 0), PolyHash(Tail(name), m))

\* what the loop has computed after i characters, the range, and the two fixed values
HashInvariant(example) ==
    tool = "hash" =>
        /\ IsU32(hs.result)
        /\ hs.mult = 101
        /\ hs.result = PolyHash(SubSeq(hs.name, 1, hs.i), hs.mult)
        /\ (hs.pc = "done" /\ hs.name = <<>>) => hs.result = U32Zero
        /\ (hs.pc = "done" /\ hs.name = ExampleName) => hs.result = example

\* C1 (as amended): on the create path _calc_filename_hash(name) is the iteration
\* h = 0; h = (c + h*0x65) mod 2^32 over the characters in order (after i characters
\* h is the sum of c_j * 0x65^(i-j) mod 2^32), it stays within 0..2^32-1, hash("") = 0
\* and hash("example.bffnt") = 0x40e57ea6.
C1_HashIteration == HashInvariant(U32(16613, 32422))

\* C1 witness: the call on "example.bffnt" has returned (the accumulator wrapped on the way)
C1_Witness == tool = "hash" /\ hs.pc = "done" /\ hs.name = ExampleName

\* C1 as stated: the same with hash("example.bffnt") = 0x41c45f67
C1_Original == HashInvariant(U32(16836, 24423))

----------------------------------------------------------------------------
(* C2, C6, C7: the archive written by Sarc.save *)

Saved == tool = "sarc_create" /\ sv.pc = "saved"

\* the dataOffset field of the written archive, read in the order its BOM gives
SavedDataOffset == UnpackU32(SarcOrderOfBom(sv.out.bom), sv.out.data_offset)

\* C2 (as stated): after any sequence of add() calls and save(), every SFAT node's
\* nameHash is greater than the previous node's, a `.noname.bin' source being keyed by
\* the hash parsed from its name and any other source by the hash of its name.
C2_StrictlyAscending ==
    Saved =>
        /\ \A i \in 1..sv.out.node_count :
              sv.out.nodes[i].hash =
                  (IF sv.files[i].noname THEN NonameHash(sv.files[i])
                   ELSE CalcFilenameHash(sv.files[i].text, 101))
        /\ \A i \in 1..(sv.out.node_count - 1) :
              U32Less(sv.out.nodes[i].hash, sv.out.nodes[i + 1].hash)

\* C6: node i holds dataStart = (archive position of file i's data) - dataOffset and
\* dataEnd = dataStart + (length of file i); the ranges ascend in node order without
\* overlap; the dataOffset field holds the position where the data region starts.
C6_NodeRanges ==
    Saved =>
        /\ SavedDataOffset = ToU32(sv.out.data_region_at)
        /\ Len(sv.out.written_at) = sv.out.node_count
        /\ \A i \in 1..sv.out.node_count :
              /\ sv.out.nodes[i].start = sv.out.written_at[i] - sv.out.data_region_at
              /\ sv.out.nodes[i].end = sv.out.nodes[i].start + sv.sizes[sv.files[i]]
              /\ sv.out.nodes[i].start >= 0
        /\ \A i \in 1..(sv.out.node_count - 1) :
              sv.out.nodes[i].end <= sv.out.nodes[i + 1].start

\* C6 witness: an archive of three files; the first, of one byte, is followed by padding
\* and the second, of 128 bytes, is not
C6_Witness ==
    /\ Saved
    /\ sv.out.node_count = 3
    /\ sv.out.nodes[1].end = 1
    /\ sv.out.nodes[2].start = 128
    /\ sv.out.nodes[2].end = 256
    /\ sv.out.nodes[3].start = 256

\* C7: dataOffset is a multiple of 0x100 and every file's data starts at an archive
\* position that is a multiple of 0x80, for any number of files and any lengths.
C7_Alignment ==
    Saved =>
        /\ SavedDataOffset[2] % 256 = 0
        /\ sv.out.data_region_at % 256 = 0
        /\ \A i \in 1..sv.out.node_count : sv.out.written_at[i] % 128 = 0

\* C7 witness: a file of one byte is followed by an empty file and by another file
C7_Witness ==
    /\ Saved
    /\ sv.out.node_count >= 3
    /\ sv.sizes[sv.files[1]] = 1
    /\ sv.sizes[sv.files[2]] = 0
    /\ sv.out.written_at[3] = sv.out.written_at[2]

----------------------------------------------------------------------------
(* C3 *)

\* the name the archive stores for node i: the bytes of the name table from the node's
\* name offset up to the next zero byte
StoredNameOf(arc, i) == StoredName(arc, Len(arc.fnt) + 1, arc.nodes[i].name_offset * 4)

\* the file name of node i
NameOf(arc, i) ==
    IF arc.nodes[i].has_name # 0 THEN [noname |-> FALSE, text |-> StoredNameOf(arc, i)]
    ELSE NonameFilename(arc.nodes[i].hash)

\* the output files extraction should leave behind: one per node, in node order, holding
\* the archive bytes dataOffset + dataStart .. dataOffset + dataEnd - 1
FilesOf(arc) ==
    [i \in 1..arc.node_count |->
        [idx |-> i - 1, filename |-> NameOf(arc, i),
         lo |-> arc.data_offset + arc.nodes[i].start,
         hi |-> arc.data_offset + arc.nodes[i].end,
         written |-> TRUE, closed |-> TRUE]]

\* C3: for a valid archive, two reads of the same zlib stream that differ only in how
\* the stream is split into delivered chunks end the same way, with the same nodes and
\* names and the same bytes written for every entry.
C3_ChunkingIndependent ==
    (/\ tool = "sarc_read"
     /\ env.arc \in WellFormedArchives
     /\ env.run = 2
     /\ rd.pc # "loop")
    => Outcome(rd) = env.prev[1]

----------------------------------------------------------------------------
(* C4 *)

\* C4: in extract mode, when read() has finished for an archive it did not reject, the
\* files written are one per node, in node order, and the file of node i holds exactly
\* the archive bytes dataOffset + dataStart_i .. dataOffset + dataEnd_i - 1.
C4_ExtractExact ==
    (/\ tool = "sarc_read"
     /\ env.extract
     /\ rd.pc # "loop"
     /\ ~rd.invalid)
    => rd.emitted = FilesOf(env.arc)

----------------------------------------------------------------------------
(* C5 *)

\* C5: once the input stream is exhausted, read() eventually leaves its loop, by a
\* return, a break or an exception.
C5_Terminates == (tool = "sarc_read" /\ rd.eof) ~> (rd.pc # "loop")

----------------------------------------------------------------------------
(* C10 *)

\* the name stored in the archive for node i does not hash to the hash of the node
NameViolation(arc, i) ==
    /\ arc.nodes[i].has_name # 0
    /\ HashMismatch(arc.nodes[i].hash, StoredNameOf(arc, i), arc.hash_mult)

\* C10: when read() has returned without setting invalid, the stored name of every named
\* node hashes to the node's hash; when it has returned with invalid set, no entry has
\* been emitted.
C10_NamesChecked ==
    (tool = "sarc_read" /\ rd.pc = "done")
    => /\ ~rd.invalid => \A i \in 1..env.arc.node_count : ~NameViolation(env.arc, i)
       /\ rd.invalid => rd.emitted = <<>> /\ rd.listed = <<>>

----------------------------------------------------------------------------
(* C8 *)

\* the total-size field of a written container, read in the byte order the BOM bytes of
\* the container stand for, is the number of bytes of the file
SizeFieldIsLength(order, out) ==
    /\ order # "none"
    /\ UnpackU32(order, out.size_bytes) = ToU32(out.length)

\* C8: after Sarc.save (uncompressed), Bffnt.save and Bflim.save have written a
\* container, the total-size field in its header, read in the container's byte order,
\* equals the number of bytes of the file, whichever byte order was asked for.
C8_SizeField ==
    /\ (tool = "sarc_create" /\ sv.pc = "saved")
          => SizeFieldIsLength(SarcOrderOfBom(sv.out.bom),
                               [size_bytes |-> sv.out.file_len, length |-> sv.out.length])
    /\ (tool = "bffnt_create" /\ enc.pc = "saved" /\ enc.out.complete)
          => SizeFieldIsLength(BffntOrderOfBom(enc.out.bom), enc.out)
    /\ (tool = "bflim_create" /\ enc.pc = "saved")
          => SizeFieldIsLength(BflimOrderOfBom(enc.host, enc.out.bom), enc.out)

----------------------------------------------------------------------------
(* C9 *)

\* Sarc: _parse_header has run
SarcHeaderParsed == rd.order # "none" \/ rd.invalid

\* Sarc: the length in the header is not the length of the file
SarcSizeDiffers == env.arc.file_len # env.file_size

\* Bffnt: the length in the header, in the order of the BOM, is not the length of the file
FontSizeDiffers ==
    /\ dec.order # "none"
    /\ UnpackU32(dec.order, dec.file.file_size) # ToU32(dec.file.length)

\* Bflim: the fatal checks of the FLIM header pass
FlimHeaderSound ==
    /\ dec.file.magic = "FLIM"
    /\ BflimOrderOfBom(dec.host, dec.file.bom) # "none"
    /\ UnpackU16(dec.host, dec.file.header_size) = FLIM_HEADER_SIZE

----------------------------------------------------------------------------
(* C11 *)

\* Sarc: one of the three header checks has failed
SarcHeaderFailed ==
    /\ tool = "sarc_read" /\ rd.invalid
    /\ rd.state \in {STATE_SARC_HEADER, STATE_SFAT_HEADER, STATE_SFNT_HEADER}

\* Bffnt: a CMAP header with a wrong magic has been parsed
CmapMagicFailed ==
    \E i \in 1..Len(dec.cmap_sections) : dec.file.cmap[i].magic # "CMAP"

\* Bffnt: a header check has failed
FontHeaderFailed == tool = "bffnt_read" /\ (dec.invalid \/ CmapMagicFailed)

\* Sarc: read has returned and the instance holds no node of the input
SarcNothingKept == rd.pc = "done" /\ rd.file_nodes = <<>>

\* Bffnt: invalid is set and read has returned
FontRejected == dec.invalid /\ dec.pc = "returned"

\* Bffnt: the instance holds no section and no sheet of the input
FontNothingKept == dec.cwdh_sections = <<>> /\ dec.cmap_sections = <<>> /\ dec.sheets = 0

\* C11: once a header check of Sarc.read or Bffnt.read has failed (magic, header size,
\* BOM, fatal size mismatch, in any section header, CWDH and CMAP included), invalid
\* is set, read has returned, and file_nodes, cwdh_sections, cmap_sections and the
\* sheets hold nothing of the rejected input.
C11_HeaderFailure ==
    /\ SarcHeaderFailed => SarcNothingKept
    /\ FontHeaderFailed => (FontRejected /\ FontNothingKept)

----------------------------------------------------------------------------
(* C12 *)

\* the lists instance i sees are the ones its own calls have built
OwnState(i) ==
    \A name \in DOMAIN lib.class : Attr(i, name) = lib.given[i][name]

\* C12: calls on one instance never change the model of another: every instance of
\* Sarc (files, file_nodes) and of Bffnt (cwdh_sections, cmap_sections) holds exactly
\* what its own add/read/load calls gave it, and a fresh instance has empty lists.
C12_InstancesSeparate ==
    tool = "library" => \A i \in Instances : lib.made[i] => OwnState(i)

----------------------------------------------------------------------------
(* C13 *)

\* save() has not run: open(filename, 'wb') at line 348 is its first statement, so the
\* output file has been neither created nor truncated
OutputUntouched == enc.pc \in {"new", "loaded"}

\* the bytes the output file has received
OutputBytes == IF OutputUntouched THEN 0 ELSE enc.out.length

\* C13: when the authoring input of a BFFNT is invalid (a sheet PNG of the wrong size,
\* an unknown colorFormat), the encode ends with invalid set and the output file has
\* received no bytes: it is not created or truncated and no header is written.
C13_AbortWritesNothing ==
    (tool = "bffnt_create" /\ enc.invalid) => (OutputUntouched /\ OutputBytes = 0)

----------------------------------------------------------------------------
(* C14 *)

\* the tiled position of the pixel (x, y) on a canvas `width' pixels wide: the pixel px
\* of the group sx of the sub-tile bx of the tile tx, and the same for y
TiledPos(x, y, width) ==
    (x % 2) + 4 * ((x \div 2) % 2) + 16 * ((x \div 4) % 2) + 64 * (x \div 8)
    + 2 * (y % 2) + 8 * ((y \div 2) % 2) + 32 * ((y \div 4) % 2) + (y \div 8) * 8 * width

\* the canvas walked has a width and a height that are powers of two, 8 or more
PaddedCanvas ==
    /\ px.width = PaddedSide(px.width) /\ px.width >= 8
    /\ px.height = PaddedSide(px.height) /\ px.height >= 8

\* the walk has gone through all its rounds
WalkComplete == px.pc # "raised" /\ px.n = Rounds(px.width, px.height)

\* C14: on a padded canvas W' x H' (powers of two, 8 or more) the walk of Bffnt and
\* the walk of Bflim pair every pixel (x, y) with the position px + 4 sx + 16 bx +
\* 64 tx + 2 py + 8 sy + 32 by + ty * 8 * W', and the pairing is a bijection from the
\* W' * H' pixels onto 0..W'*H'-1, so going to the tiled position and back gives the
\* same pixel.
C14_TileWalkBijection ==
    (tool = "sheet" /\ PaddedCanvas) =>
        /\ \A pair \in px.placed :
               pair[2] = TiledPos(pair[1] % px.width, pair[1] \div px.width, px.width)
        /\ WalkComplete =>
               /\ {pair[1] : pair \in px.placed} = 0..(px.width * px.height - 1)
               /\ {pair[2] : pair \in px.placed} = 0..(px.width * px.height - 1)
               /\ Cardinality(px.placed) = px.width * px.height

\* a walk of Bflim over a canvas 16 wide and 8 high has returned
C14_Witness ==
    /\ tool = "sheet" /\ px.codec = "bflim" /\ px.pc = "decoded"
    /\ px.width = 16 /\ px.height = 8 /\ Cardinality(px.placed) = 128

----------------------------------------------------------------------------
(* C15 *)

\* a sheet in a format of several bytes per pixel, of a size that needs no padding
MultiByteSheet ==
    /\ tool = "sheet" /\ px.codec = "bffnt"
    /\ px.format \in {FORMAT_RGBA8, FORMAT_RGB8, FORMAT_LA8}
    /\ px.width = px.data_width /\ px.height = px.data_height

\* C15: a bitmap packed by _sheet_to_bitmap(to_tglp=True) in RGBA8, RGB8 or LA8 and
\* decoded again by _sheet_to_bitmap has the same pixel at every (x, y): the pixel at
\* tiled position p is written to the bytes [p*k, p*k+k) that the decoder reads for p.
C15_PackDecode ==
    (MultiByteSheet /\ px.pc = "decoded") =>
        \A q \in 1..Len(px.source) : px.bmp[q] = px.source[q]

----------------------------------------------------------------------------
(* C16 *)

\* C16: for RGBA8, LA8, L8 and A8 and every pixel p with channels 0..255, unpacking
\* the bytes _get_tglp_pixel_data packs for p with _get_pixel_data gives p again.
C16_PixelRoundTrip ==
    (tool = "pixel" /\ px.codec = "bffnt" /\ px.pc = "unpacked"
        /\ px.format \in {FORMAT_RGBA8, FORMAT_LA8, FORMAT_L8, FORMAT_A8})
    => px.out = px.pixel

----------------------------------------------------------------------------
(* C17 *)

\* a font has been saved and the file read back and extracted
ReadBack == tool = "bffnt_read" /\ enc.pc = "saved" /\ dec.pc = "extracted"

\* the width records of the manifest the font was loaded from, by glyph index
AuthoredWidths == [index \in 0..(enc.font[1].glyphs - 1) |-> WidthOf(index)]

\* C17: a CWDH section holds end - start + 1 width records for its inclusive range: a
\* font loaded with the glyph indices 0..N, saved by Bffnt.save and read back by
\* Bffnt.read has one width record for each index 0..N, equal to the authored one.
C17_WidthsReadBack ==
    /\ (tool = "bffnt_read" /\ enc.pc = "saved") =>
           \A n \in 1..Len(dec.file.cwdh) :
               Len(dec.file.cwdh[n].data) = dec.file.cwdh[n].end - dec.file.cwdh[n].start + 1
    /\ ReadBack => dec.glyph_widths = AuthoredWidths

----------------------------------------------------------------------------
(* C18 *)

\* the codes a section maps and their glyphs, with both ends of the range of a Direct
\* or Table section counted in
InclusiveMapping(cmap) ==
    IF cmap.type = MAPPING_DIRECT
       THEN [code \in cmap.start..cmap.end |-> code - cmap.start + cmap.indexOffset]
    ELSE IF cmap.type = MAPPING_TABLE
       THEN [code \in {c \in cmap.start..cmap.end :
                            cmap.indexTable[c - cmap.start + 1] # 65535}
                |-> cmap.indexTable[code - cmap.start + 1]]
    ELSE cmap.entries

RECURSIVE InclusiveGlyphMap(_, _)
InclusiveGlyphMap(sections, i) ==
    IF i = 0 THEN <<>>
    ELSE Update(InclusiveGlyphMap(sections, i - 1), InclusiveMapping(sections[i]))

\* a font whose sections are all of a known type has been read and extracted
MapExtracted ==
    /\ tool = "bffnt_read" /\ dec.pc = "extracted"
    /\ \A n \in 1..Len(dec.cmap_sections) :
           dec.cmap_sections[n].type \in {MAPPING_DIRECT, MAPPING_TABLE, MAPPING_SCAN}

\* C18: the glyph map Bffnt.extract builds maps every code c of the inclusive range
\* [start, end] of a Direct section to c - start + indexOffset, every code of the
\* inclusive range of a Table section whose entry is not 0xFFFF to that entry, every
\* Scan code to its index, and no other code: Direct [0x20, 0x7F, offset 1] plus Scan
\* {0xFF21 -> 100, 0xFF22 -> 101} gives 0x41 -> 34, 0x7F -> 96, 0xFF21 -> 100 and
\* leaves 0x80 unmapped.
C18_GlyphMap ==
    MapExtracted =>
        dec.glyph_mapping = InclusiveGlyphMap(dec.cmap_sections, Len(dec.cmap_sections))

----------------------------------------------------------------------------
(* C19 *)

\* the header of a saved font has been parsed
SavedHeaderParsed == tool = "bffnt_read" /\ enc.pc = "saved" /\ dec.pc # "header"

\* C19: a BFFNT written by Bffnt.save in either byte order is read by Bffnt.read with
\* that order detected, so that every header field decodes to the value written.
C19_OrderRoundTrip ==
    SavedHeaderParsed =>
        /\ dec.order = enc.order
        /\ UnpackU16(dec.order, dec.file.header_size) = FFNT_HEADER_SIZE
        /\ UnpackU32(dec.order, dec.file.version) = ToU32(ManifestVersion)
        /\ UnpackU32(dec.order, dec.file.file_size) = ToU32(enc.out.length)

----------------------------------------------------------------------------
(* C20 *)

\* what the serialized form of a string would be with every tag turned into
\* U+0003 U+0004 and the colour in container byte order
RECURSIVE EscapedForm(_, _, _)
EscapedForm(order, s, i) ==
    IF i > Len(s) THEN <<>>
    ELSE IF IsTag(s, i)
    THEN EncodeUtf16(order, <<3, 4>>) \o PackColor(order, ColorValue(s, i)) \o EscapedForm(order, s, i + 11)
    ELSE EncodeUtf16(order, <<s[i]>>) \o EscapedForm(order, s, i + 1)

HasTag(s) == \E i \in 1..Len(s) : IsTag(s, i)

\* C20: with colours enabled, the bytes _serialize_txt2 writes for a string hold
\* U+0003 U+0004 and the colour in container byte order in place of every
\* [#RRGGBBAA], then the terminator, and _parse_txt2_data gives the string back
C20_ColorRoundTrip ==
    (tool = "msbt" /\ tx.colors /\ tx.pc = "parsed")
        => /\ tx.data = EscapedForm(tx.order, tx.strings[1], 1) \o <<0, 0>>
           /\ ~tx.raised
           /\ tx.parsed = tx.strings

----------------------------------------------------------------------------
(* C21 *)

\* the byte count a state of read() waits for (lines 233, 243, 255, 265, 275)
Required(r) ==
    CASE r.state = STATE_SARC_HEADER -> SARC_HEADER_LEN
      [] r.state = STATE_SFAT_HEADER -> SFAT_HEADER_LEN
      [] r.state = STATE_SFAT_DATA -> SFAT_NODE_LEN * r.file_count
      [] r.state = STATE_SFNT_HEADER -> SFNT_HEADER_LEN
      [] r.state = STATE_SFNT_DATA -> r.fnt_data_length
      [] OTHER -> 0

\* a step of one call of read(), not the start of another call
SameCall == tool = "sarc_read" /\ env'.run = env.run

\* a step that changes the state goes to the next state
StepsForward == (SameCall /\ rd'.state # rd.state) => rd'.state = rd.state + 1

\* a step that changes the state found the byte count of the state it leaves in
\* partial_data
StepsWhenFilled == (SameCall /\ rd'.state # rd.state) => PartialLen >= Required(rd)

\* a step that changes the state takes exactly that byte count off the front of
\* partial_data
StepsConsumeExactly ==
    (SameCall /\ rd'.state # rd.state)
        => /\ rd'.position = rd.position
           /\ rd'.buf_lo = rd.buf_lo + Required(rd)

\* C21: in Sarc.read every change of state goes to the next state in the order SARC
\* header, SFAT header, SFAT nodes, SFNT header, SFNT names, file data; it happens only
\* when partial_data holds at least the byte count of the state left, and it consumes
\* exactly that many bytes.
C21_StateMachine == [][StepsForward /\ StepsWhenFilled /\ StepsConsumeExactly]_vars

----------------------------------------------------------------------------
(* C30 *)

\* partial_data is the suffix of the delivered bytes that starts at partial_start
SuffixAccounted == rd.partial_start + PartialLen = rd.position /\ rd.partial_start = rd.buf_lo

\* in the file-data state remaining lies between 0 and the length of the current entry
RemainingBounded ==
    (rd.state = STATE_FILE_DATA /\ rd.file_idx < Len(rd.file_nodes))
        => /\ 0 <= rd.remaining
           /\ rd.remaining <= rd.file_nodes[rd.file_idx + 1].length

\* partial_start does not decrease within one call
StartMonotone == SameCall => rd'.partial_start >= rd.partial_start

\* C30: at every iteration of the loop of Sarc.read, partial_start + len(partial_data)
\* = position with partial_data the unconsumed suffix of the bytes delivered,
\* partial_start never decreases, and in the file-data state 0 <= remaining <= the
\* length of the current entry.
C30_BufferAccounting ==
    /\ []((tool = "sarc_read" /\ rd.pc = "loop") => (SuffixAccounted /\ RemainingBounded))
    /\ [][StartMonotone]_vars

----------------------------------------------------------------------------
(* C22 *)

\* max(8, next_pow2(n))
CanvasSide(n) == IF PaddedSide(n) < 8 THEN 8 ELSE PaddedSide(n)

\* the walk is over: it has returned or it has raised
WalkOver == tool = "sheet" /\ px.pc \in {"packed", "decoded", "raised"}

\* C22: for every declared size W x H the walk of Bffnt._sheet_to_bitmap and of
\* Bflim._data_to_bitmap goes over a canvas max(8, next_pow2(W)) wide and
\* max(8, next_pow2(H)) high, and when it is over every declared pixel (x < W, y < H)
\* has been visited exactly once.
C22_CanvasCoversDeclared ==
    WalkOver =>
        /\ px.width = CanvasSide(px.data_width)
        /\ px.height = CanvasSide(px.data_height)
        /\ \A x \in 0..(px.data_width - 1), y \in 0..(px.data_height - 1) :
               Cardinality({t \in px.pixels : t[1] = x /\ t[2] = y}) = 1

----------------------------------------------------------------------------
(* C23 *)

\* C23: the rounds that are not skipped are those of the pixels with x < W and
\* y < H: no pixel outside the declared size is processed, a walk that has returned
\* has processed every pixel inside it, and the bitmap index of the pixel (x, y) is
\* x + y * W, the index the exporter reads it at.
C23_SkipOutsideDeclared ==
    (tool = "sheet") =>
        /\ \A t \in px.pixels :
               /\ t[1] < px.data_width /\ t[2] < px.data_height
               /\ t[3] = t[1] + t[2] * px.data_width
        /\ px.pc \in {"packed", "decoded"} =>
               \A x \in 0..(px.data_width - 1), y \in 0..(px.data_height - 1) :
                   \E t \in px.pixels : t[1] = x /\ t[2] = y

----------------------------------------------------------------------------
(* C24 *)

\* a 5-bit and a 6-bit value expanded to 8 bits: shifted left, the high bits
\* repeated in the low ones
Expand5(v) == v * 8 + v \div 4

Expand6(v) == v * 4 + v \div 16

\* the pixel the layout table gives for the two bytes of a 16-bit format
LayoutPixel(b1, b2, format) ==
    IF format = FORMAT_RGBA5551
    THEN <<Expand5(b1 \div 8), Expand5((b1 % 8) * 4 + b2 \div 64), Expand5((b2 \div 2) % 32),
           (b2 % 2) * 255>>
    ELSE IF format = FORMAT_RGB565
    THEN <<Expand5(b1 \div 8), Expand6((b1 % 8) * 8 + b2 \div 32), Expand5(b2 % 32), 255>>
    ELSE <<(b1 \div 16) * 17, (b1 % 16) * 17, (b2 \div 16) * 17, (b2 % 16) * 17>>

\* the top bits of the stored channels: 5 (6 for the green of RGB565), 4 for RGBA4
TopBits(pixel, format) ==
    IF format = FORMAT_RGBA5551 THEN <<pixel[1] \div 8, pixel[2] \div 8, pixel[3] \div 8>>
    ELSE IF format = FORMAT_RGB565 THEN <<pixel[1] \div 8, pixel[2] \div 4, pixel[3] \div 8>>
    ELSE <<pixel[1] \div 16, pixel[2] \div 16, pixel[3] \div 16, pixel[4] \div 16>>

\* C24: for RGBA5551, RGB565 and RGBA4, in the functions of Bffnt and of Bflim, the
\* pixel unpacked from two bytes is the one the layout table gives (bit fields
\* expanded by shift and replication, RGBA4 nibbles times 0x11), and unpacking what
\* was packed for a pixel p keeps the top bits of every stored channel of p.
C24_SixteenBitLayout ==
    (tool = "pixel" /\ px.pc = "unpacked"
        /\ px.format \in {FORMAT_RGBA5551, FORMAT_RGB565, FORMAT_RGBA4})
    => /\ px.out = LayoutPixel(px.bytes[1], px.bytes[2], px.format)
       /\ TopBits(px.out, px.format) = TopBits(px.pixel, px.format)

----------------------------------------------------------------------------
(* C25 *)

\* the 4-bit value of a pixel: its luminance in L4, its alpha in A4, in units of 0x11
FourBitValue(pixel, format) ==
    IF format = FORMAT_L4 THEN Luminance(pixel[1], pixel[2], pixel[3]) \div 17
    ELSE pixel[4] \div 17

\* the nibble of position data_pos in the packed bytes: byte data_pos / 2, the low
\* half for an even position, the high half for an odd one
NibbleAt(data, data_pos) ==
    LET byte == data[(data_pos \div 2) + 1]
    IN  (IF data_pos % 2 = 1 THEN byte \div 16 ELSE byte) % 16

\* a sheet in L4 or A4
FourBitSheet == tool = "sheet" /\ px.codec = "bffnt" /\ px.format \in {FORMAT_L4, FORMAT_A4}

\* C25: packing an L4 or A4 sheet keeps every packed byte within 0..255 and leaves in
\* the nibble of every position the 4-bit value of the pixel placed there, whatever
\* its neighbour in the byte holds; the walk does not fail, and decoding gives every
\* pixel the 4-bit value of its nibble times 0x11.
C25_NibblePacking ==
    FourBitSheet =>
        /\ px.pc # "raised"
        /\ \A i \in 1..Len(px.data) : px.data[i] \in 0..255
        /\ px.source # <<>> =>
               \A pair \in px.placed :
                   NibbleAt(px.data, pair[2]) = FourBitValue(px.source[pair[1] + 1], px.format)
        /\ ~px.to_tglp =>
               \A pair \in px.placed :
                   px.bmp[pair[1] + 1] =
                       UnpackNibble(NibbleAt(px.data, pair[2]), px.format, 0)

----------------------------------------------------------------------------
(* C26 *)

\* a block in differential mode has been decoded
DifferentialBlock ==
    /\ tool = "etc1" /\ px.block # <<>>
    /\ WordBit(px.block.pixels, ETC_DIFFERENTIAL_BIT) = 1

\* the 5-bit base of channel c (1 red, 2 green, 3 blue) in the word
BaseField(word, c) == ShiftMask(word, 59 - 8 * (c - 1), 5)

\* the 3-bit field of channel c, as the signed number s(d)
SignedField(word, c) ==
    LET d == ShiftMask(word, 56 - 8 * (c - 1), 3)
    IN  IF d < 4 THEN d ELSE d - 8

\* (w << 3) | (w >> 2) of a 5-bit value
Replicate5(w) == BitOr(w * 8, w \div 4)

\* sub-block 1's base is the 5-bit field with its top bits replicated
FirstBaseReplicated ==
    DifferentialBlock =>
        \A c \in 1..3 : px.block.color1[c] = Replicate5(BaseField(px.block.pixels, c))

\* the second 5-bit value stays a 5-bit value
SecondValueInRange ==
    DifferentialBlock =>
        \A c \in 1..3 :
            BaseField(px.block.pixels, c) + SignedField(px.block.pixels, c) \in 0..31

\* C26: in a differential block, per channel, sub-block 1's base is (v<<3)|(v>>2) of
\* the 5-bit field v, w = v + s(d) is in 0..31 for the 3-bit field d, sub-block 2's
\* base is (w<<3)|(w>>2), and both bases are in 0..255.
C26_DifferentialBases ==
    /\ FirstBaseReplicated
    /\ SecondValueInRange
    /\ DifferentialBlock =>
           \A c \in 1..3 :
               /\ px.block.color1[c] \in 0..255
               /\ px.block.color2[c] \in 0..255
               /\ LET w == BaseField(px.block.pixels, c) + SignedField(px.block.pixels, c)
                  IN  w \in 0..31 => px.block.color2[c] = Replicate5(w)

----------------------------------------------------------------------------
(* C27 *)

\* clamp(v, 0, 255)
Clamp255(v) == IF v < 0 THEN 0 ELSE IF v > 255 THEN 255 ELSE v

\* what the pixel (pixel_x, pixel_y) of the block just decoded has to be
ExpectedBlockPixel(pixel_x, pixel_y) ==
    LET word == px.block.pixels
        i == pixel_x * 4 + pixel_y
        first == (IF WordBit(word, ETC_ORIENTATION_BIT) = 1 THEN pixel_y ELSE pixel_x) < 2
        base == IF first THEN px.block.color1 ELSE px.block.color2
        t == IF first THEN ShiftMask(word, ETC_TABLE1_OFFSET, 3)
             ELSE ShiftMask(word, ETC_TABLE2_OFFSET, 3)
        modifier == ETC_MODIFIERS[t + 1][WordBit(word, i) + 1]
        m == IF WordBit(word, 16 + i) = 1 THEN 0 - modifier ELSE modifier
        alpha == IF px.with_alpha
                 THEN ((px.block.alphas[4 - (i \div 4)] \div Pow2(4 * (i % 4))) % 16) * 17
                 ELSE 255
    IN  <<Clamp255(base[1] + m), Clamp255(base[2] + m), Clamp255(base[3] + m), alpha>>

\* the pixels of the block just decoded that lie in the image, with their place in it
BlockPlaces ==
    {p \in (0..3) \X (0..3) : /\ p[1] + 4 * px.block.block_x < px.width
                              /\ p[2] + 4 * px.block.block_y < px.height}

\* C27: every pixel (px, py) of a decoded block, with i = px*4 + py, takes sub-block 1
\* iff (py if the orientation bit is 1, else px) < 2; its R, G, B are
\* clamp(base + m, 0, 255) with m the entry (bit i) of the sub-block's modifier row,
\* negated iff bit 16+i is 1; its alpha is nibble i of the alpha plane times 0x11 in
\* ETC1A4 and 255 otherwise; every channel is in 0..255.
C27_BlockPixels ==
    (tool = "etc1" /\ px.block # <<>>) =>
        \A p \in BlockPlaces :
            LET decoded == px.bmp[(p[2] + 4 * px.block.block_y) * px.width
                                  + p[1] + 4 * px.block.block_x + 1]
            IN  /\ decoded = ExpectedBlockPixel(p[1], p[2])
                /\ \A c \in 1..4 : decoded[c] \in 0..255

\* an image with an alpha plane has been decoded from blocks split by rows, with
\* pixels clamped at both ends
C27_Witness ==
    /\ tool = "etc1" /\ px.pc = "returned" /\ px.with_alpha /\ px.width = 8
    /\ WordBit(px.block.pixels, ETC_ORIENTATION_BIT) = 1
    /\ \E q \in 1..Len(px.bmp) : px.bmp[q][1] = 255 /\ px.bmp[q][4] = 17
    /\ \E q \in 1..Len(px.bmp) : px.bmp[q][2] = 0

----------------------------------------------------------------------------
(* C28 *)

\* the elements of a set of positions in ascending order
RECURSIVE Ascending(_)
Ascending(S) ==
    IF S = {} THEN <<>>
    ELSE LET low == CHOOSE x \in S : \A y \in S : x <= y
         IN  <<low>> \o Ascending(S \ {low})

\* save() has written the whole file
ChainSaved == tool = "bffnt_chain" /\ enc.pc = "saved"

\* the positions of the magics of the sections of one kind, in written order
SectionsWritten(magic) ==
    Ascending({p \in DOMAIN enc.out.heads : enc.out.heads[p].magic = magic})

\* the field at `at', in the byte order the file was written in
FieldWritten(at) == ChainValue(enc.out, enc.order, at)

\* the first offset leads to the first section, every next-offset (at `field' in its
\* header) to the section behind it, and the last one is 0
Chained(first, written, field) ==
    /\ first = written[1] + 8
    /\ \A i \in 1..Len(written) :
           FieldWritten(written[i] + field) = IF i < Len(written) THEN written[i + 1] + 8 ELSE 0

\* the offsets and the section count of a file save() has written
OffsetsWritten ==
    ChainSaved =>
        /\ Len(SectionsWritten("CWDH")) = Len(enc.cwdh_sections)
        /\ Len(SectionsWritten("CMAP")) = Len(enc.cmap_sections)
        /\ FieldWritten(FFNT_HEADER_SIZE + 20) = SectionsWritten("TGLP")[1] + 8
        /\ Chained(FieldWritten(FFNT_HEADER_SIZE + 24), SectionsWritten("CWDH"), 12)
        /\ Chained(FieldWritten(FFNT_HEADER_SIZE + 28), SectionsWritten("CMAP"), 16)
        /\ FieldWritten(16) = 2 + Len(enc.cwdh_sections) + Len(enc.cmap_sections)

\* read() of the file has ended
ChainReadEnded == ChainSaved /\ dec # Idle /\ dec.pc \in {"done", "returned", "raised"}

\* read() ends having walked the written sections in written order
WalkVisitsWritten ==
    ChainReadEnded =>
        /\ dec.pc = "done"
        /\ dec.cwdh_visited = SectionsWritten("CWDH")
        /\ dec.cmap_visited = SectionsWritten("CMAP")

\* C28: in a file written by Bffnt.save with one or more CWDH and CMAP sections,
\* FINF's three offsets and every next-offset are the position of the target's magic
\* plus 8, the last next-offset of each chain is 0, the count at 0x10 is
\* 2 + #CWDH + #CMAP, and Bffnt.read's walk visits exactly the written sections in
\* written order and ends.
C28_SectionChain == OffsetsWritten /\ WalkVisitsWritten

----------------------------------------------------------------------------
(* C29 *)

\* the two bytes are one of the marks 0xFEFF and 0xFFFE
BomGiven(bom) == UnpackU16(">", bom) \in {65279, 65534}

\* the byte order the mark of the input stands for, by the class that reads it
OrderGiven(class, host, bom) ==
    IF class = "Bffnt" THEN BffntOrderOfBom(bom) ELSE BflimOrderOfBom(host, bom)

\* a read() of a reused or new instance has returned
ReadReturned == tool = "reuse" /\ dec.pc = "read"

\* C29: after every read of a container whose BOM is neither 0xFEFF nor 0xFFFE the
\* invalid flag is set, whatever was read or loaded on the instance before; and a
\* read that goes on behind the header parses in the order the BOM of its input gives.
C29_BomOfInput ==
    ReadReturned =>
        /\ ~BomGiven(dec.file.bom) => dec.invalid
        /\ dec.went_on => (BomGiven(dec.file.bom)
                           /\ dec.order = OrderGiven(dec.class, dec.host, dec.file.bom))

====
